---- MODULE Spec2Model ----
(***************************************************************************)
(* Template store and search index of the Image-Prompt-Constructor.        *)
(*                                                                         *)
(* Source modelled: src/unnamed/part_001 (services/templatesStore.ts with  *)
(* the singleton search index) and src/services/search/*.ts.               *)
(*                                                                         *)
(* Representation.                                                         *)
(*  - A JavaScript string is a sequence of one-character strings, so that  *)
(*    trimming, whitespace collapsing, lower-casing, splitting and sorting *)
(*    are computed character by character as the code computes them.       *)
(*  - A JavaScript object is a function on its own keys.  A key that is    *)
(*    absent and a key whose value is `undefined` are the same thing here: *)
(*    every read in the code treats them alike and JSON.stringify drops    *)
(*    the latter when the collection is written to localStorage.           *)
(*  - SHA-256 of the canonical JSON is modelled as the canonical payload   *)
(*    itself (an injective hash: no collisions).                           *)
(***************************************************************************)
EXTENDS Integers, Sequences, FiniteSets, TLC

----------------------------------------------------------------------------
(* Characters, in ascending UTF-16 code order (the order Array.sort uses). *)

Alphabet ==
    << "\t", " ", "-",
       "0", "1", "2", "3", "4", "5", "6", "7", "8", "9",
       "A", "B", "C", "D", "E", "F", "G", "H", "I", "J", "K", "L", "M",
       "N", "O", "P", "Q", "R", "S", "T", "U", "V", "W", "X", "Y", "Z",
       "_",
       "a", "b", "c", "d", "e", "f", "g", "h", "i", "j", "k", "l", "m",
       "n", "o", "p", "q", "r", "s", "t", "u", "v", "w", "x", "y", "z" >>

Chars == {Alphabet[i] : i \in 1..Len(Alphabet)}

CodeOf == [c \in Chars |-> CHOOSE i \in 1..Len(Alphabet) : Alphabet[i] = c]

UpperChars == {Alphabet[i] : i \in CodeOf["A"]..CodeOf["Z"]}

LowerChars == {Alphabet[i] : i \in CodeOf["a"]..CodeOf["z"]}

DigitChars == {Alphabet[i] : i \in CodeOf["0"]..CodeOf["9"]}

\* \s of the regular expressions
IsSpace(c) == c \in {" ", "\t"}

\* \w of the regular expressions: [A-Za-z0-9_]
IsWordChar(c) == c \in UpperChars \cup LowerChars \cup DigitChars \cup {"_"}

toLowerChar(c) ==
    IF c \in UpperChars THEN Alphabet[CodeOf[c] + (CodeOf["a"] - CodeOf["A"])] ELSE c

\* String.prototype.toLowerCase
toLowerCase(s) == [i \in 1..Len(s) |-> toLowerChar(s[i])]

\* left \o right, without the last element of left when drop
joined(left, right, drop) ==
    IF drop THEN SubSeq(left, 1, Len(left) - 1) \o right ELSE left \o right

\* s.replace(/\s+/g, " "), by halves: a run of white space that spans the
\* cut leaves one space
RECURSIVE collapseSpaces(_)
collapseSpaces(s) ==
    IF Len(s) = 0 THEN <<>>
    ELSE IF Len(s) = 1 THEN (IF IsSpace(s[1]) THEN <<" ">> ELSE s)
    ELSE joined(collapseSpaces(SubSeq(s, 1, Len(s) \div 2)),
                collapseSpaces(SubSeq(s, Len(s) \div 2 + 1, Len(s))),
                IsSpace(s[Len(s) \div 2]) /\ IsSpace(s[Len(s) \div 2 + 1]))

\* left \o right, the last piece of left and the first of right made one when glued
glued(left, right, glue) ==
    IF glue
    THEN SubSeq(left, 1, Len(left) - 1) \o <<left[Len(left)] \o right[1]>> \o Tail(right)
    ELSE left \o right

\* the maximal runs of s made of the given characters, in order: what split
\* on the other characters leaves, without the empty pieces; by halves, a
\* run that spans the cut being glued
RECURSIVE runsOf(_, _)
runsOf(s, chars) ==
    IF Len(s) = 0 THEN <<>>
    ELSE IF Len(s) = 1 THEN (IF s[1] \in chars THEN <<s>> ELSE <<>>)
    ELSE glued(runsOf(SubSeq(s, 1, Len(s) \div 2), chars),
               runsOf(SubSeq(s, Len(s) \div 2 + 1, Len(s)), chars),
               s[Len(s) \div 2] \in chars /\ s[Len(s) \div 2 + 1] \in chars)

RECURSIVE trimStart(_)
trimStart(s) == IF s # <<>> /\ IsSpace(s[1]) THEN trimStart(Tail(s)) ELSE s

RECURSIVE trimEnd(_)
trimEnd(s) ==
    IF s # <<>> /\ IsSpace(s[Len(s)]) THEN trimEnd(SubSeq(s, 1, Len(s) - 1)) ELSE s

\* String.prototype.trim
trim(s) == trimEnd(trimStart(s))

\* text.includes(pat)
includes(text, pat) ==
    \E i \in 1..(Len(text) - Len(pat) + 1) : SubSeq(text, i, i + Len(pat) - 1) = pat

\* a < b in the order of Array.prototype.sort() on strings
RECURSIVE StrLess(_, _)
StrLess(a, b) ==
    IF b = <<>> THEN FALSE
    ELSE IF a = <<>> THEN TRUE
    ELSE IF a[1] = b[1] THEN StrLess(Tail(a), Tail(b))
    ELSE CodeOf[a[1]] < CodeOf[b[1]]

\* insertion of x into the sorted list xs
RECURSIVE insertSorted(_, _)
insertSorted(x, xs) ==
    IF xs = <<>> THEN <<x>>
    ELSE IF StrLess(x, xs[1]) THEN <<x>> \o xs
    ELSE <<xs[1]>> \o insertSorted(x, Tail(xs))

\* Array.prototype.sort() of a list of strings
RECURSIVE sort(_)
sort(xs) == IF xs = <<>> THEN <<>> ELSE insertSorted(xs[1], sort(Tail(xs)))

\* Array.from(new Set(xs)): first occurrences, in order
RECURSIVE uniq(_, _)
uniq(xs, seen) ==
    IF xs = <<>> THEN <<>>
    ELSE IF xs[1] \in seen THEN uniq(Tail(xs), seen)
    ELSE <<xs[1]>> \o uniq(Tail(xs), seen \cup {xs[1]})

\* xs.slice(0, n)
slice(xs, n) == SubSeq(xs, 1, IF Len(xs) < n THEN Len(xs) ELSE n)

Range(xs) == {xs[i] : i \in 1..Len(xs)}

\* parts.join(" ")
RECURSIVE join(_)
join(parts) ==
    IF parts = <<>> THEN <<>>
    ELSE IF Len(parts) = 1 THEN parts[1]
    ELSE parts[1] \o <<" ">> \o join(Tail(parts))

\* xs.filter(Boolean) on a list of strings: the empty string is falsy
RECURSIVE filterTruthy(_)
filterTruthy(xs) ==
    IF xs = <<>> THEN <<>>
    ELSE IF xs[1] = <<>> THEN filterTruthy(Tail(xs))
    ELSE <<xs[1]>> \o filterTruthy(Tail(xs))

----------------------------------------------------------------------------
(* Objects *)

\* { ...a, ...b }
Spread(a, b) ==
    [k \in DOMAIN a \cup DOMAIN b |-> IF k \in DOMAIN b THEN b[k] ELSE a[k]]

\* the value of a string property, an absent one read as "" (both are falsy)
StrOf(o, k) == IF k \in DOMAIN o THEN o[k] ELSE <<>>

\* o.tags || []
TagsOf(o) == IF "tags" \in DOMAIN o THEN o.tags ELSE <<>>

\* o[k] || 0   and   o[k] || false
NumOf(o, k) == IF k \in DOMAIN o THEN o[k] ELSE 0

BoolOf(o, k) == IF k \in DOMAIN o THEN o[k] ELSE FALSE

\* { k: o[k] }, nothing when o[k] is undefined
Opt(o, k) == [x \in (IF k \in DOMAIN o THEN {k} ELSE {}) |-> o[k]]

PromptFields == <<"subject", "action", "environment", "style", "lighting", "camera">>

----------------------------------------------------------------------------
(* Normalization and signature *)

\* const singleSpace = (s) => s.replace(/\s+/g, " ").trim()
singleSpace(s) == trim(collapseSpaces(s))

\* const lower = (s) => (s ? singleSpace(s).toLowerCase() : "")
lower(s) == IF s # <<>> THEN toLowerCase(singleSpace(s)) ELSE <<>>

Uncategorized == <<"u", "n", "c", "a", "t", "e", "g", "o", "r", "i", "z", "e", "d">>

\* tags are capped to the first MaxTags after de-duplication
MaxTags == 10

\* (input.tags || []).map(t => lower(String(t)))
mapLower(tags) == [i \in 1..Len(tags) |-> lower(tags[i])]

normalizeTemplate(input) ==
    [ name        |-> singleSpace(StrOf(input, "name")),
      subject     |-> lower(StrOf(input, "subject")),
      action      |-> lower(StrOf(input, "action")),
      environment |-> lower(StrOf(input, "environment")),
      style       |-> lower(StrOf(input, "style")),
      lighting    |-> lower(StrOf(input, "lighting")),
      camera      |-> lower(StrOf(input, "camera")),
      category    |-> lower(IF StrOf(input, "category") # <<>>
                            THEN input.category ELSE Uncategorized),
      tags        |-> slice(uniq(mapLower(TagsOf(input)), {}), MaxTags) ]

\* The payload keys in sorted order, as JSON.stringify(stableObject) lists
\* them; the digest of that string is modelled as the list of its values.
SignatureKeys ==
    <<"action", "camera", "category", "environment", "lighting", "name", "style", "subject">>

computeSignature(templateData) ==
    LET canonical == normalizeTemplate(templateData)
    IN  [i \in 1..Len(SignatureKeys) |-> canonical[SignatureKeys[i]]]

----------------------------------------------------------------------------
(* Validation *)

MinNameLen == 3

MaxNameLen == 60

MaxSubjectLen == 300

MinFilled == 4

VeryVery == <<"v", "e", "r", "y", " ", "v", "e", "r", "y">>

UltraUltra == <<"u", "l", "t", "r", "a", " ", "u", "l", "t", "r", "a">>

SoftStudioLighting ==
    <<"s", "o", "f", "t", " ", "s", "t", "u", "d", "i", "o", " ",
      "l", "i", "g", "h", "t", "i", "n", "g">>

HighContrast == <<"h", "i", "g", "h", " ", "c", "o", "n", "t", "r", "a", "s", "t">>

\* const req = (s) => !!s && s.trim().length > 0
req(s) == s # <<>> /\ Len(trim(s)) > 0

\* the six prompt fields of o, in order
promptValues(o) == [i \in 1..Len(PromptFields) |-> StrOf(o, PromptFields[i])]

\* the text the intensifier and contradiction rules read
promptText(input) == toLowerCase(join(filterTruthy(promptValues(input))))

\* a variant of badName that rejects the names of exactly MinNameLen characters
badNameStrict(name) ==
    ~req(name) \/ Len(trim(name)) <= MinNameLen \/ Len(trim(name)) > MaxNameLen

\* !req(input.name) || name.trim().length < 3 || name.trim().length > 60
badName(name) ==
    ~req(name) \/ Len(trim(name)) < MinNameLen \/ Len(trim(name)) > MaxNameLen

\* !req(input.subject) || subject.trim().length > 300
badSubject(subject) == ~req(subject) \/ Len(trim(subject)) > MaxSubjectLen

\* the number of prompt fields that pass req
filled(input) ==
    Cardinality({i \in 1..Len(PromptFields) : req(StrOf(input, PromptFields[i]))})

doubled(text) == includes(text, VeryVery) \/ includes(text, UltraUltra)

hasContradiction(text) == includes(text, SoftStudioLighting) /\ includes(text, HighContrast)

\* the issues pushed, in order, and the quality they give
verdict(noName, noSubject, few, twice, contra) ==
    LET issues == (IF noName THEN <<"name">> ELSE <<>>)
                  \o (IF noSubject THEN <<"subject">> ELSE <<>>)
                  \o (IF few THEN <<"fields">> ELSE <<>>)
                  \o (IF twice THEN <<"intensifier">> ELSE <<>>)
                  \o (IF contra THEN <<"contradiction">> ELSE <<>>)
        isRed   == noName \/ noSubject \/ few \/ contra
        quality == IF isRed THEN "Red" ELSE IF Len(issues) > 0 THEN "Amber" ELSE "Green"
    IN  [ok |-> quality # "Red", issues |-> issues, quality |-> quality]

validateTemplate(input) ==
    verdict(badName(StrOf(input, "name")),
            badSubject(StrOf(input, "subject")),
            filled(input) < MinFilled,
            doubled(promptText(input)),
            hasContradiction(promptText(input)))

----------------------------------------------------------------------------
(* Tokenizer of the store's index (part_001) *)

STOPWORDS ==
    { <<"a">>, <<"a", "n">>, <<"t", "h", "e">>, <<"i", "n">>, <<"o", "n">>,
      <<"o", "f">>, <<"f", "o", "r">>, <<"w", "i", "t", "h">>, <<"b", "y">>,
      <<"a", "s">>, <<"i", "s">>, <<"a", "r", "e">>, <<"w", "a", "s">>,
      <<"w", "e", "r", "e">>, <<"t", "o">>, <<"a", "n", "d">>, <<"i", "t">>,
      <<"f", "r", "o", "m">>, <<"o", "r">>, <<"a", "t">>, <<"i">>,
      <<"y", "o", "u">>, <<"h", "e">>, <<"s", "h", "e">>, <<"w", "e">>,
      <<"t", "h", "e", "y">> }

\* text.split(/\W+/) without the empty pieces (the filter drops them anyway)
splitWords(s) == runsOf(s, {c \in Chars : IsWordChar(c)})

RECURSIVE dropStop(_, _)
dropStop(words, stop) ==
    IF words = <<>> THEN <<>>
    ELSE IF words[1] \in stop THEN dropStop(Tail(words), stop)
    ELSE <<words[1]>> \o dropStop(Tail(words), stop)

tokenize(text) == uniq(dropStop(splitWords(toLowerCase(text)), STOPWORDS), {})

----------------------------------------------------------------------------
(* The search index (part_001): four maps, each a function on its keys *)

EmptyIndex == [term |-> <<>>, tag |-> <<>>, cat |-> <<>>, meta |-> <<>>]

\* map.set(key, value)
MapSet(map, key, value) ==
    [k \in DOMAIN map \cup {key} |-> IF k = key THEN value ELSE map[k]]

\* map.delete(key)
MapDelete(map, key) == [k \in DOMAIN map \ {key} |-> map[k]]

add(map, key, value) ==
    IF key \in DOMAIN map
    THEN [map EXCEPT ![key] = @ \cup {value}]
    ELSE MapSet(map, key, {value})

RECURSIVE addAll(_, _, _)
addAll(map, keys, sig) ==
    IF keys = <<>> THEN map ELSE addAll(add(map, keys[1], sig), Tail(keys), sig)

\* a variant of removeOne that leaves the key with its emptied set
removeKeepingKey(map, key, sig) ==
    IF key \in DOMAIN map THEN [map EXCEPT ![key] = @ \ {sig}] ELSE map

\* sigs.delete(sig); if (sigs.size === 0) map.delete(key)
removeOne(map, key, sig) ==
    IF key \in DOMAIN map
    THEN IF map[key] \ {sig} = {}
         THEN MapDelete(map, key)
         ELSE [map EXCEPT ![key] = @ \ {sig}]
    ELSE map

RECURSIVE removeAll(_, _, _)
removeAll(map, keys, sig) ==
    IF keys = <<>> THEN map
    ELSE removeAll(removeOne(map, keys[1], sig), Tail(keys), sig)

\* [subject, action, environment, style, lighting, camera].filter(Boolean).join(" ")
indexText(template) == join(filterTruthy(promptValues(template)))

lowerTags(template) ==
    [i \in 1..Len(TagsOf(template)) |-> toLowerCase(TagsOf(template)[i])]

\* template.category || "uncategorized"
categoryOf(template) ==
    IF StrOf(template, "category") # <<>> THEN template.category ELSE Uncategorized

HasSignature(template) == "signature" \in DOMAIN template /\ template.signature # <<>>

addToIndex(template, index) ==
    IF ~HasSignature(template) THEN index
    ELSE LET sig  == template.signature
             text == indexText(template)
         IN  [ term |-> addAll(index.term, tokenize(text), sig),
               tag  |-> addAll(index.tag, lowerTags(template), sig),
               cat  |-> add(index.cat, toLowerCase(categoryOf(template)), sig),
               meta |-> MapSet(index.meta, sig,
                          [ name     |-> StrOf(template, "name"),
                            quality  |-> IF "quality" \in DOMAIN template
                                         THEN template.quality ELSE "Amber",
                            tags     |-> TagsOf(template),
                            category |-> categoryOf(template),
                            textLen  |-> Len(text) ]) ]

removeFromIndex(template, index) ==
    IF ~HasSignature(template) THEN index
    ELSE LET sig  == template.signature
             text == indexText(template)
         IN  [ term |-> removeAll(index.term, tokenize(text), sig),
               tag  |-> removeAll(index.tag, lowerTags(template), sig),
               cat  |-> removeOne(index.cat, toLowerCase(categoryOf(template)), sig),
               meta |-> MapDelete(index.meta, sig) ]

RECURSIVE addEach(_, _)
addEach(templates, index) ==
    IF templates = <<>> THEN index
    ELSE addEach(Tail(templates), addToIndex(templates[1], index))

buildIndex(templates) == addEach(templates, EmptyIndex)

----------------------------------------------------------------------------
(* Store: helpers *)

\* The built-in presets.  The program ships eleven presets of long English
\* text; the model keeps one preset of the same shape with short fields.
STYLE_PRESETS ==
    << [ name |-> <<"P", "o", "p">>,
         data |-> [ subject     |-> <<"A", " ", "c", "a", "t">>,
                    action      |-> <<"s", "a", "t">>,
                    environment |-> <<"d", "e", "n">>,
                    style       |-> <<"i", "n", "k">>,
                    lighting    |-> <<"d", "i", "m">>,
                    camera      |-> <<"l", "o", "w">> ] ] >>

Migrated == <<"M", "i", "g", "r", "a", "t", "e", "d">>

\* suggestTags keeps keywords longer than MinKeywordLen, at most MaxSuggested
MinKeywordLen == 2

MaxSuggested == 8

\* s.split(/[,\s]+/), without the empty pieces (they fail the `k &&` test)
RECURSIVE splitCommaSpace(_, _)
splitCommaSpace(s, cur) ==
    LET done == IF cur = <<>> THEN <<>> ELSE <<cur>>
    IN  IF s = <<>> THEN done
        ELSE IF IsSpace(s[1]) \/ s[1] = ","
             THEN done \o splitCommaSpace(Tail(s), <<>>)
             ELSE splitCommaSpace(Tail(s), Append(cur, s[1]))

\* t.toLowerCase().replace(/[^a-z0-9\-]/g, "")
RECURSIVE keepKeywordChars(_)
keepKeywordChars(s) ==
    IF s = <<>> THEN <<>>
    ELSE IF s[1] \in LowerChars \cup DigitChars \cup {"-"}
         THEN <<s[1]>> \o keepKeywordChars(Tail(s))
         ELSE keepKeywordChars(Tail(s))

RECURSIVE keywordsOf(_)
keywordsOf(pieces) ==
    IF pieces = <<>> THEN <<>>
    ELSE LET k == keepKeywordChars(toLowerCase(pieces[1]))
         IN  (IF k # <<>> /\ Len(k) > MinKeywordLen THEN <<k>> ELSE <<>>)
             \o keywordsOf(Tail(pieces))

RECURSIVE keywordsOfAll(_)
keywordsOfAll(values) ==
    IF values = <<>> THEN <<>>
    ELSE keywordsOf(splitCommaSpace(values[1], <<>>)) \o keywordsOfAll(Tail(values))

suggestTags(pd) ==
    slice(uniq(keywordsOfAll(filterTruthy(promptValues(pd))), {}), MaxSuggested)

\* localStorage.setItem(TEMPLATES_KEY, JSON.stringify(templates))
\* The storage: limited says whether it is about to be full, left how many
\* writes it accepts before localStorage.setItem throws (QuotaExceededError).
Accepting == [limited |-> FALSE, left |-> 0]

Refusing(after) == [limited |-> TRUE, left |-> after]

\* window.dispatchEvent(new CustomEvent('doma:templates-updated'))
emitTemplatesUpdated(st) == [st EXCEPT !.trace = Append(@, "emit")]

\* a variant of saveAllTemplates that writes and does not notify
saveSilently(st, templates) ==
    IF st.storage.limited /\ st.storage.left = 0
    THEN [st EXCEPT !.trace = Append(@, "refused")]
    ELSE [st EXCEPT !.blob = templates,
                    !.storage = IF @.limited THEN Refusing(@.left - 1) ELSE @,
                    !.trace = Append(@, "write")]

\* try { setItem; emitTemplatesUpdated() } catch (e) { console.error }
\* trace lists what the call did to the storage and the listeners
saveAllTemplates(st, templates) ==
    IF st.storage.limited /\ st.storage.left = 0
    THEN [st EXCEPT !.trace = Append(@, "refused")]
    ELSE emitTemplatesUpdated(
             [st EXCEPT !.blob = templates,
                        !.storage = IF @.limited THEN Refusing(@.left - 1) ELSE @,
                        !.trace = Append(@, "write")])


\* the record convertOldPresetToTemplate returns for the canonical form
presetRecord(id, canonical, signature, pinned, now) ==
    Spread(Spread([id |-> id], canonical),
           [ favorite           |-> FALSE,
             pinned             |-> pinned,
             usageCount         |-> 0,
             renderSuccessCount |-> 0,
             lastUsed           |-> 0,
             createdAt          |-> now,
             updatedAt          |-> now,
             signature          |-> signature,
             quality            |-> validateTemplate(canonical).quality ])

\* { ...preset.data, name: preset.name, category: 'Migrated', tags: suggestTags(preset.data) }
presetData(preset) ==
    Spread(preset.data,
           [name |-> preset.name, category |-> Migrated, tags |-> suggestTags(preset.data)])

convertOldPresetToTemplate(preset, pinned, now, id) ==
    presetRecord(id, normalizeTemplate(presetData(preset)),
                 computeSignature(presetData(preset)), pinned, now)

\* presets.map(p => convertOldPresetToTemplate(p, {pinned})), ids firstId, firstId+1, ...
convertAll(presets, pinned, now, firstId) ==
    [i \in 1..Len(presets) |->
        convertOldPresetToTemplate(presets[i], pinned, now, firstId + i - 1)]

\* Array.from(new Map(combined.map(t => [t.signature, t])).values()):
\* a key keeps the position of its first entry and the value of its last
RECURSIVE uniqueBySignature(_, _)
uniqueBySignature(combined, acc) ==
    IF combined = <<>> THEN acc
    ELSE LET hit == {i \in 1..Len(acc) : acc[i].signature = combined[1].signature}
         IN  uniqueBySignature(Tail(combined),
                 IF hit = {} THEN Append(acc, combined[1])
                 ELSE [acc EXCEPT ![CHOOSE i \in hit : TRUE] = combined[1]])

\* the legacy blob: [present |-> FALSE], [present |-> TRUE, presets |-> <<...>>]
\* when it parses to an array, [present |-> TRUE] when it does not
NoLegacy == [present |-> FALSE]

NotArrayLegacy == [present |-> TRUE]

\* let searchIndex: BuiltIndex | null = null
null == [null |-> TRUE]

\* a variant of bulkSaved that keeps the live index
bulkKept(st, templates, legacyLeft, idsDrawn) ==
    [ templates |-> templates,
      st |-> [saveAllTemplates(st, templates) EXCEPT
                 !.legacy      = legacyLeft,
                 !.nextId      = st.nextId + idsDrawn] ]

\* saveAllTemplates(templates); searchIndex = null; return templates
\* (with the ids drawn and the legacy blob left behind)
bulkSaved(st, templates, legacyLeft, idsDrawn) ==
    [ templates |-> templates,
      st |-> [saveAllTemplates(st, templates) EXCEPT
                 !.legacy      = legacyLeft,
                 !.searchIndex = null,
                 !.nextId      = st.nextId + idsDrawn] ]

\* a variant of seedInitialTemplates that leaves the presets unpinned
seedUnpinned(st, now) ==
    bulkSaved(st, convertAll(STYLE_PRESETS, FALSE, now, st.nextId),
              st.legacy, Len(STYLE_PRESETS))

seedInitialTemplates(st, now) ==
    bulkSaved(st, convertAll(STYLE_PRESETS, TRUE, now, st.nextId),
              st.legacy, Len(STYLE_PRESETS))

migrateOldPresets(st, now) ==
    bulkSaved(st,
        uniqueBySignature(
            convertAll(STYLE_PRESETS, TRUE, now, st.nextId + Len(st.legacy.presets))
            \o convertAll(st.legacy.presets, FALSE, now, st.nextId),
            <<>>),
        NoLegacy, Len(st.legacy.presets) + Len(STYLE_PRESETS))

\* the one-time backfill of quality, usageCount and renderSuccessCount
backfill(t) ==
    Spread(t,
        [k \in {"quality", "usageCount", "renderSuccessCount"} \ DOMAIN t |->
            IF k = "quality" THEN validateTemplate(t).quality ELSE 0])

\* if (needsSave) { save; invalidate; return migratedTemplates } return templates
backfilled(st, migratedTemplates) ==
    IF migratedTemplates # st.blob
    THEN bulkSaved(st, migratedTemplates, st.legacy, 0)
    ELSE [templates |-> st.blob, st |-> st]

\* a blob that JSON.parse rejects
Unreadable == << [unreadable |-> TRUE] >>

\* try { if (storedData) return JSON.parse(storedData) } catch { } return []
getRawTemplates(st) == IF st.blob = Unreadable THEN <<>> ELSE st.blob

\* a legacy entry convertOldPresetToTemplate converts; for an entry with no
\* data suggestTags(preset.data) raises
convertible(preset) == "data" \in DOMAIN preset

\* migrateOldPresets returns the migrated collection, not null: the legacy
\* blob is there, parses to an array, and no conversion raises into the catch
migrates(l) ==
    /\ l.present
    /\ "presets" \in DOMAIN l
    /\ \A i \in 1..Len(l.presets) : convertible(l.presets[i])

\* a variant of getTemplates that returns the stored collection as it is
getStored(st, now) == [templates |-> getRawTemplates(st), st |-> st]

\* ret: the collection returned and the store left behind
getTemplates(st, now) ==
    IF Len(getRawTemplates(st)) > 0
    THEN backfilled(st, [i \in 1..Len(st.blob) |-> backfill(st.blob[i])])
    ELSE IF migrates(st.legacy)
         THEN migrateOldPresets(st, now)
         ELSE seedInitialTemplates(st, now)

\* templates.findIndex(t => t.id === id), 0 standing for -1
findIndexById(templates, id) ==
    LET hit == {i \in 1..Len(templates) : templates[i].id = id}
    IN  IF hit = {} THEN 0 ELSE CHOOSE i \in hit : \A j \in hit : i <= j

\* templates.findIndex(t => t.signature === signature), 0 standing for -1
findIndexBySignature(templates, signature) ==
    LET hit == {i \in 1..Len(templates) : templates[i].signature = signature}
    IN  IF hit = {} THEN 0 ELSE CHOOSE i \in hit : \A j \in hit : i <= j

\* templates.filter(t => !idSet.has(t.id))
RECURSIVE filterOutIds(_, _)
filterOutIds(templates, idSet) ==
    IF templates = <<>> THEN <<>>
    ELSE (IF templates[1].id \in idSet THEN <<>> ELSE <<templates[1]>>)
         \o filterOutIds(Tail(templates), idSet)

\* templates.filter(t => idSet.has(t.id))
RECURSIVE withIds(_, _)
withIds(templates, idSet) ==
    IF templates = <<>> THEN <<>>
    ELSE (IF templates[1].id \in idSet THEN <<templates[1]>> ELSE <<>>)
         \o withIds(Tail(templates), idSet)

----------------------------------------------------------------------------
(* Store: the mutations.  Each is given as the code runs it after its       *)
(* collection read (`await getTemplates()`): `templates` is the collection  *)
(* as read, `st` the store at the moment the call resumes after its last    *)
(* suspension point (`await computeSignature(...)`), from where it builds   *)
(* the record, patches the live index and writes the collection in one      *)
(* synchronous run.  ret is the value the call resolves to.                 *)

RECURSIVE removeEach(_, _)
removeEach(templates, index) ==
    IF templates = <<>> THEN index
    ELSE removeEach(Tail(templates), removeFromIndex(templates[1], index))

\* if (searchIndex) { _removeFromIndex(...); _addToIndex(...) }
\* the call's trace notes that it changed the live index
patchIndex(st, removed, added) ==
    IF st.searchIndex = null \/ (removed = <<>> /\ added = <<>>) THEN st
    ELSE [st EXCEPT !.searchIndex = addEach(added, removeEach(removed, st.searchIndex)),
                    !.trace = Append(@, "index")]

\* newTemplate of createTemplate
createdRecord(id, data, canonical, signature, now) ==
    Spread(Spread(Spread([id |-> id], canonical),
           [ favorite           |-> BoolOf(data, "favorite"),
             pinned             |-> BoolOf(data, "pinned"),
             usageCount         |-> NumOf(data, "usageCount"),
             renderSuccessCount |-> NumOf(data, "renderSuccessCount"),
             lastUsed           |-> NumOf(data, "lastUsed"),
             createdAt          |-> now,
             updatedAt          |-> now,
             signature          |-> signature,
             quality            |-> validateTemplate(canonical).quality ]),
           Opt(data, "thumbnail"))

\* _addToIndex(newTemplate); saveAllTemplates([...templates, newTemplate])
appended(st, templates, newTemplate) ==
    saveAllTemplates(patchIndex([st EXCEPT !.nextId = @ + 1], <<>>, <<newTemplate>>),
                     Append(templates, newTemplate))

\* _removeFromIndex(old); _addToIndex(new); templates[i] = new; saveAllTemplates(templates)
replaced(st, templates, i, updatedTemplate) ==
    saveAllTemplates(patchIndex(st, <<templates[i]>>, <<updatedTemplate>>),
                     [templates EXCEPT ![i] = updatedTemplate])

\* a variant of createStored that returns the template only when it was written
createDurable(st, templates, newTemplate) ==
    [ st  |-> appended(st, templates, newTemplate),
      ret |-> IF appended(st, templates, newTemplate).blob = st.blob
              THEN null ELSE newTemplate ]

createStored(st, templates, newTemplate) ==
    [st |-> appended(st, templates, newTemplate), ret |-> newTemplate]

\* a variant of createTemplate that appends to the collection as stored when
\* the call resumes, not to the collection it read
createOnStored(st, templates, data, now) ==
    createStored(st, st.blob,
        createdRecord(st.nextId, data, normalizeTemplate(data), computeSignature(data), now))

createTemplate(st, templates, data, now) ==
    createStored(st, templates,
        createdRecord(st.nextId, data, normalizeTemplate(data), computeSignature(data), now))

\* a variant of mergedTags that takes the incoming tags and drops the stored ones
incomingTags(existing, canonical) == TagsOf(canonical)

\* mergedTags of the update branch of upsertTemplate
mergedTags(existing, canonical) ==
    slice(sort(uniq(TagsOf(existing) \o TagsOf(canonical), {})), MaxTags)

\* newTemplate of the create branch of upsertTemplate
upsertNewRecord(id, data, canonical, signature, now) ==
    Spread(Spread(Spread(Spread([id |-> id], canonical),
           [ favorite           |-> BoolOf(data, "favorite"),
             pinned             |-> BoolOf(data, "pinned"),
             usageCount         |-> 0,
             renderSuccessCount |-> 0,
             lastUsed           |-> 0,
             createdAt          |-> now,
             updatedAt          |-> now,
             signature          |-> signature,
             quality            |-> validateTemplate(canonical).quality ]),
           Opt(data, "thumbnail")),
           Opt(data, "variantOf"))

\* a variant of upsertMergedRecord that stamps the merged record as created now
upsertRestamped(existing, data, canonical, now) ==
    Spread(Spread(Spread(Spread(existing, canonical),
           [ tags      |-> mergedTags(existing, canonical),
             createdAt |-> now,
             updatedAt |-> now,
             quality   |-> validateTemplate(canonical).quality ]),
           Opt(data, "thumbnail")),
           Opt(data, "variantOf"))

\* updatedTemplate of the update branch of upsertTemplate
upsertMergedRecord(existing, data, canonical, now) ==
    Spread(Spread(Spread(Spread(existing, canonical),
           [ tags      |-> mergedTags(existing, canonical),
             updatedAt |-> now,
             quality   |-> validateTemplate(canonical).quality ]),
           Opt(data, "thumbnail")),
           Opt(data, "variantOf"))

upsertStored(st, status, template) ==
    [st |-> st, ret |-> [status |-> status, template |-> template]]

upsertCreated(st, templates, newTemplate) ==
    upsertStored(appended(st, templates, newTemplate), "created", newTemplate)

upsertUpdated(st, templates, existingIndex, updatedTemplate) ==
    upsertStored(replaced(st, templates, existingIndex, updatedTemplate),
                 "updated", updatedTemplate)

\* a variant of upsertAt without the update branch: it always stores a new record
upsertAlwaysNew(st, templates, data, now, canonical, signature, existingIndex) ==
    upsertCreated(st, templates,
        upsertNewRecord(st.nextId, data, canonical, signature, now))

\* the two branches of upsertTemplate, existingIndex = 0 standing for -1
upsertAt(st, templates, data, now, canonical, signature, existingIndex) ==
    IF existingIndex = 0
    THEN upsertCreated(st, templates,
             upsertNewRecord(st.nextId, data, canonical, signature, now))
    ELSE upsertUpdated(st, templates, existingIndex,
             upsertMergedRecord(templates[existingIndex], data, canonical, now))

upsertTemplate(st, templates, data, now) ==
    upsertAt(st, templates, data, now, normalizeTemplate(data), computeSignature(data),
             findIndexBySignature(templates, computeSignature(data)))

\* updatedTemplate of updateTemplate and updateManyTemplates, for
\* base = { ...oldTemplate, ...updates }
updatedRecord(oldTemplate, updates, base, canonical, now) ==
    Spread(Spread(Spread(oldTemplate, canonical), updates),
           [ signature |-> computeSignature(base),
             updatedAt |-> now,
             quality   |-> validateTemplate(canonical).quality ])

applyUpdates(oldTemplate, updates, now) ==
    updatedRecord(oldTemplate, updates, Spread(oldTemplate, updates),
                  normalizeTemplate(Spread(oldTemplate, updates)), now)

updateStored(st, templates, templateIndex, updatedTemplate) ==
    [ st  |-> replaced(st, templates, templateIndex, updatedTemplate),
      ret |-> updatedTemplate ]

updateAt(st, templates, templateIndex, updates, now) ==
    IF templateIndex = 0 THEN [st |-> st, ret |-> null]
    ELSE updateStored(st, templates, templateIndex,
                      applyUpdates(templates[templateIndex], updates, now))

\* ret = null when no record has the id
updateTemplate(st, templates, id, updates, now) ==
    updateAt(st, templates, findIndexById(templates, id), updates, now)

\* templates.find(t => t.id === id), as a list of at most one record
findById(templates, id) ==
    IF findIndexById(templates, id) = 0 THEN <<>>
    ELSE <<templates[findIndexById(templates, id)]>>

deleteTemplate(st, templates, id) ==
    [ st  |-> emitTemplatesUpdated(
                  saveAllTemplates(patchIndex(st, findById(templates, id), <<>>),
                                   filterOutIds(templates, {id}))),
      ret |-> null ]

deleteManyTemplates(st, templates, idSet) ==
    [ st  |-> emitTemplatesUpdated(
                  saveAllTemplates(patchIndex(st, withIds(templates, idSet), <<>>),
                                   filterOutIds(templates, idSet))),
      ret |-> null ]

\* a variant of the loop of updateManyTemplates that saves after each record
RECURSIVE updateManySavingEach(_, _, _, _, _, _)
updateManySavingEach(st, updatedTemplates, i, idSet, updates, now) ==
    IF i > Len(updatedTemplates) THEN st
    ELSE IF updatedTemplates[i].id \in idSet
         THEN updateManySavingEach(
                  saveAllTemplates(
                      patchIndex(st, <<updatedTemplates[i]>>,
                                 <<applyUpdates(updatedTemplates[i], updates, now)>>),
                      [updatedTemplates EXCEPT
                          ![i] = applyUpdates(updatedTemplates[i], updates, now)]),
                  [updatedTemplates EXCEPT
                      ![i] = applyUpdates(updatedTemplates[i], updates, now)],
                  i + 1, idSet, updates, now)
         ELSE updateManySavingEach(st, updatedTemplates, i + 1, idSet, updates, now)

\* the loop of updateManyTemplates from position i on, over its working copy
RECURSIVE updateManyFrom(_, _, _, _, _, _)
updateManyFrom(st, updatedTemplates, i, idSet, updates, now) ==
    IF i > Len(updatedTemplates) THEN saveAllTemplates(st, updatedTemplates)
    ELSE IF updatedTemplates[i].id \in idSet
         THEN updateManyFrom(
                  patchIndex(st, <<updatedTemplates[i]>>,
                             <<applyUpdates(updatedTemplates[i], updates, now)>>),
                  [updatedTemplates EXCEPT
                      ![i] = applyUpdates(updatedTemplates[i], updates, now)],
                  i + 1, idSet, updates, now)
         ELSE updateManyFrom(st, updatedTemplates, i + 1, idSet, updates, now)

updateManyTemplates(st, templates, idSet, updates, now) ==
    [st |-> updateManyFrom(st, templates, 1, idSet, updates, now), ret |-> null]

\* A JSON number where the code expects text is modelled as a one-element
\* list holding a word that is not a character (JSON.parse gives a number,
\* on which s.replace is not a function).
isString(v) == \A i \in 1..Len(v) : v[i] \in Chars

\* the keys normalizeTemplate passes to singleSpace or lower
TextKeys == {"name", "category"} \cup Range(PromptFields)

\* computeSignature(t) throws a TypeError: a truthy text field of t is not a string
raises(t) == \E k \in TextKeys \cap DOMAIN t : ~isString(t[k])

\* the record importTemplates pushes for the payload entry t
importedRecord(t, canonical, signature, now, freshId) ==
    Spread(Spread(t, canonical),
           [ id                 |-> IF "id" \in DOMAIN t THEN t.id ELSE freshId,
             favorite           |-> BoolOf(t, "favorite"),
             pinned             |-> BoolOf(t, "pinned"),
             usageCount         |-> NumOf(t, "usageCount"),
             renderSuccessCount |-> NumOf(t, "renderSuccessCount"),
             lastUsed           |-> NumOf(t, "lastUsed"),
             createdAt          |-> IF NumOf(t, "createdAt") # 0 THEN t.createdAt ELSE now,
             updatedAt          |-> now,
             signature          |-> signature,
             quality            |-> validateTemplate(canonical).quality ])

\* the loop of an import that does not remember the signatures it has pushed
RECURSIVE importEvery(_, _, _, _, _)
importEvery(incoming, existingSignatures, newTemplates, now, nextId) ==
    IF incoming = <<>>
    THEN [newTemplates |-> newTemplates, nextId |-> nextId, raised |-> FALSE]
    ELSE IF StrOf(incoming[1], "subject") = <<>>
         THEN importEvery(Tail(incoming), existingSignatures, newTemplates, now, nextId)
    ELSE IF raises(incoming[1])
         THEN [newTemplates |-> newTemplates, nextId |-> nextId, raised |-> TRUE]
    ELSE IF computeSignature(incoming[1]) \in existingSignatures
         THEN importEvery(Tail(incoming), existingSignatures, newTemplates, now, nextId)
         ELSE importEvery(Tail(incoming),
                  existingSignatures,
                  Append(newTemplates,
                         importedRecord(incoming[1], normalizeTemplate(incoming[1]),
                                        computeSignature(incoming[1]), now, nextId)),
                  now,
                  IF "id" \in DOMAIN incoming[1] THEN nextId ELSE nextId + 1)

\* the loop of importTemplates over the rest of the payload; raised: the
\* loop was left by an exception of computeSignature
RECURSIVE importLoop(_, _, _, _, _)
importLoop(incoming, existingSignatures, newTemplates, now, nextId) ==
    IF incoming = <<>>
    THEN [newTemplates |-> newTemplates, nextId |-> nextId, raised |-> FALSE]
    ELSE IF StrOf(incoming[1], "subject") = <<>>
         THEN importLoop(Tail(incoming), existingSignatures, newTemplates, now, nextId)
    ELSE IF raises(incoming[1])
         THEN [newTemplates |-> newTemplates, nextId |-> nextId, raised |-> TRUE]
    ELSE IF computeSignature(incoming[1]) \in existingSignatures
         THEN importLoop(Tail(incoming), existingSignatures, newTemplates, now, nextId)
         ELSE importLoop(Tail(incoming),
                  existingSignatures \cup {computeSignature(incoming[1])},
                  Append(newTemplates,
                         importedRecord(incoming[1], normalizeTemplate(incoming[1]),
                                        computeSignature(incoming[1]), now, nextId)),
                  now,
                  IF "id" \in DOMAIN incoming[1] THEN nextId ELSE nextId + 1)

\* catch (e) { return { success: false, ..., importedCount: 0 } }
importFailed(st) == [st |-> st, ret |-> [success |-> FALSE, importedCount |-> 0]]

\* a variant of importStored that saves what the loop had pushed when the
\* exception left it
importPushed(st, existingTemplates, loop) ==
    IF Len(loop.newTemplates) > 0
    THEN [ st  |-> [saveAllTemplates(st, existingTemplates \o loop.newTemplates) EXCEPT
                       !.searchIndex = null, !.nextId = loop.nextId],
           ret |-> [success |-> ~loop.raised,
                    importedCount |-> IF loop.raised THEN 0 ELSE Len(loop.newTemplates)] ]
    ELSE [st |-> st, ret |-> [success |-> ~loop.raised, importedCount |-> 0]]

\* if (newTemplates.length > 0) { save; invalidate }; return { importedCount }
importStored(st, existingTemplates, loop) ==
    IF loop.raised THEN importFailed([st EXCEPT !.nextId = loop.nextId])
    ELSE IF Len(loop.newTemplates) > 0
    THEN [ st  |-> [saveAllTemplates(st, existingTemplates \o loop.newTemplates) EXCEPT
                       !.searchIndex = null, !.nextId = loop.nextId],
           ret |-> [success |-> TRUE, importedCount |-> Len(loop.newTemplates)] ]
    ELSE [st |-> st, ret |-> [success |-> TRUE, importedCount |-> 0]]

\* the payload is a parsed JSON array
importTemplates(st, existingTemplates, incomingTemplates, now) ==
    importStored(st, existingTemplates,
        importLoop(incomingTemplates,
                   {existingTemplates[i].signature : i \in 1..Len(existingTemplates)},
                   <<>>, now, st.nextId))

\* updateTemplate(template.id, updates) of applyTemplate and recordSuccess:
\* it reads the collection again
updateAgain(again, id, updates, now) ==
    [ st  |-> updateTemplate(again.st, again.templates, id, updates, now).st,
      ret |-> null ]

usageOf(template, now) ==
    [usageCount |-> NumOf(template, "usageCount") + 1, lastUsed |-> now]

successOf(template) ==
    [renderSuccessCount |-> NumOf(template, "renderSuccessCount") + 1]

\* found = the position of templates.find(t => t.signature === signature), or 0
applyAt(st, templates, found, now) ==
    IF found = 0 THEN [st |-> st, ret |-> null]
    ELSE updateAgain(getTemplates(st, now), templates[found].id,
                     usageOf(templates[found], now), now)

applyTemplate(st, templates, signature, now) ==
    applyAt(st, templates, findIndexBySignature(templates, signature), now)

recordAt(st, templates, found, now) ==
    IF found = 0 THEN [st |-> st, ret |-> null]
    ELSE updateAgain(getTemplates(st, now), templates[found].id,
                     successOf(templates[found]), now)

recordSuccess(st, templates, signature, now) ==
    recordAt(st, templates, findIndexBySignature(templates, signature), now)

----------------------------------------------------------------------------
(* Search over the store's singleton index (part_001) *)

\* searchIndex = buildIndex(templates) when there is none
indexBuilt(r) == [r.st EXCEPT !.searchIndex = buildIndex(r.templates)]

\* ret: the store left behind, its searchIndex being the index returned
getSearchIndex(st, now) ==
    IF st.searchIndex # null THEN st ELSE indexBuilt(getTemplates(st, now))

\* map.get(key) || new Set()
PostingOf(map, key) == IF key \in DOMAIN map THEN map[key] ELSE {}

\* the union of the posting lists of the keys
UnionOfPostings(map, keys) == UNION {PostingOf(map, keys[i]) : i \in 1..Len(keys)}

\* the signatures in the posting list of every key
InEveryPosting(map, keys) ==
    {s \in UnionOfPostings(map, keys) : \A i \in 1..Len(keys) : s \in PostingOf(map, keys[i])}

\* tags.map(t => t.toLowerCase())
lowerAll(tags) == [i \in 1..Len(tags) |-> toLowerCase(tags[i])]

All == <<"A", "l", "l">>

\* category && category !== 'All'
hasCategory(category) == category # <<>> /\ category # All

\* Scores are exact fractions num/den of the code's floating-point value:
\* den = ScoreUnit * max(1, number of query terms).
ScoreUnit == 10000

\* 0.6 * ScoreUnit, the weight of the text match
TextWeight == 6000

\* 0.6 * 0.05 * ScoreUnit, the bonus of a text shorter than the average
ShortTextBonus == 300

\* 0.2 * 0.1 * ScoreUnit per matched tag, at most MaxTagCredits of them
TagCredit == 200

MaxTagCredits == 3

\* 0.1 * 0.1 * ScoreUnit
CategoryCredit == 100

\* 0.1 * 0.1 * ScoreUnit for Green, 0.1 * 0.05 * ScoreUnit for Amber
GreenCredit == 100

AmberCredit == 50

\* 0.15 * ScoreUnit, the inclusion threshold
Threshold == 1500

Min(a, b) == IF a < b THEN a ELSE b

Max(a, b) == IF a < b THEN b ELSE a

\* the candidate signatures, before the per-candidate filters
candidateSigs(index, qTerms, tags, category) ==
    IF Len(qTerms) = 0 /\ Len(tags) = 0 /\ ~hasCategory(category)
    THEN DOMAIN index.meta
    ELSE IF ~hasCategory(category)
         THEN IF Len(tags) > 0 /\ Len(qTerms) = 0
              THEN InEveryPosting(index.tag, lowerAll(tags))
              ELSE UnionOfPostings(index.term, qTerms)
                   \cup UnionOfPostings(index.tag, lowerAll(tags))
         ELSE IF Len(qTerms) > 0 \/ Len(tags) > 0
              THEN (UnionOfPostings(index.term, qTerms)
                    \cup UnionOfPostings(index.tag, lowerAll(tags)))
                   \cap PostingOf(index.cat, toLowerCase(category))
              ELSE PostingOf(index.cat, toLowerCase(category))

\* index.meta.forEach(m => totalLen += m.textLen), over the signatures in sigs
RECURSIVE totalLen(_, _)
totalLen(meta, sigs) ==
    IF sigs = {} THEN 0
    ELSE meta[CHOOSE x \in sigs : TRUE].textLen
         + totalLen(meta, sigs \ {CHOOSE x \in sigs : TRUE})

\* new Map(allTemplates.map(t => [t.signature, t])).get(sig): the last one wins
templateOfSignature(allTemplates, sig) ==
    LET hit == {i \in 1..Len(allTemplates) : allTemplates[i].signature = sig}
    IN  allTemplates[CHOOSE i \in hit : \A j \in hit : j <= i]

\* the number of query terms among the tokens of the template's text
matchedTerms(qTerms, name, template) ==
    Cardinality({i \in 1..Len(qTerms) :
        qTerms[i] \in Range(tokenize(join(filterTruthy(<<name>> \o promptValues(template)))))})

\* textMatch * 0.6, times den
textPart(index, qTerms, hasQuery, meta, template) ==
    IF Len(qTerms) > 0
    THEN matchedTerms(qTerms, meta.name, template) * TextWeight
         + (IF meta.textLen * Cardinality(DOMAIN index.meta)
                  < totalLen(index.meta, DOMAIN index.meta)
            THEN ShortTextBonus * Len(qTerms) ELSE 0)
    ELSE IF hasQuery THEN TextWeight ELSE 0

\* min(0.3, tagMatch) * 0.2 + categoryBoost * 0.1 + qualityBoost * 0.1, times ScoreUnit
boosts(tags, category, meta) ==
    Min(MaxTagCredits,
        Cardinality({i \in 1..Len(tags) :
            toLowerCase(tags[i]) \in Range(lowerAll(meta.tags))})) * TagCredit
    + (IF hasCategory(category) /\ toLowerCase(meta.category) = toLowerCase(category)
       THEN CategoryCredit ELSE 0)
    + (IF meta.quality = "Green" THEN GreenCredit
       ELSE IF meta.quality = "Amber" THEN AmberCredit ELSE 0)

\* the score of a candidate, times den = ScoreUnit * max(1, qTerms.length)
scoreOf(index, allTemplates, qTerms, tags, category, sig) ==
    Max(0, Min(ScoreUnit * Max(1, Len(qTerms)),
        textPart(index, qTerms,
                 Len(qTerms) > 0 \/ Len(tags) > 0 \/ hasCategory(category),
                 index.meta[sig], templateOfSignature(allTemplates, sig))
        + boosts(tags, category, index.meta[sig]) * Max(1, Len(qTerms))))

\* the tests a candidate passes to be pushed to the results
isKept(index, allTemplates, qTerms, tags, category, minQuality, sig) ==
    /\ sig \in DOMAIN index.meta
    /\ \E i \in 1..Len(allTemplates) : allTemplates[i].signature = sig
    /\ ~(minQuality = "Green" /\ index.meta[sig].quality # "Green")
    /\ ~(minQuality = "Amber" /\ index.meta[sig].quality = "Red")
    /\ scoreOf(index, allTemplates, qTerms, tags, category, sig)
          >= Threshold * Max(1, Len(qTerms))

searchResults(index, allTemplates, qTerms, tags, category, minQuality) ==
    { [ signature |-> sig,
        num |-> scoreOf(index, allTemplates, qTerms, tags, category, sig),
        den |-> ScoreUnit * Max(1, Len(qTerms)) ] :
      sig \in {s \in candidateSigs(index, qTerms, tags, category) :
                  isKept(index, allTemplates, qTerms, tags, category, minQuality, s)} }

\* ret: the set of {signature, score = num/den} pushed, before sort and slice(0, 50)
searchTemplates(index, options, allTemplates) ==
    searchResults(index, allTemplates, tokenize(StrOf(options, "q")), TagsOf(options),
                  StrOf(options, "category"),
                  IF "minQuality" \in DOMAIN options THEN options.minQuality ELSE "Any")

----------------------------------------------------------------------------
(* Store: getBestOf *)

\* Scores are exact fractions num/den of the code's floating-point value:
\* den = BestUnit * maxU * maxS.
BestUnit == 100

\* 0.6 * BestUnit, the weight of succN; 0.3 * BestUnit, the weight of usageN
SuccessWeight == 60

UsageWeight == 30

\* 0.1 * qW(quality) * BestUnit: qW is 1 for Green, 0.6 for Amber, else 0.2
GreenWeight == 10

AmberWeight == 6

OtherWeight == 2

\* the default arguments of getBestOf
DefaultLimit == 20

DefaultMinUses == 1

\* Math.max(1, ...values)
RECURSIVE maxOf(_, _)
maxOf(values, acc) ==
    IF values = <<>> THEN acc ELSE maxOf(Tail(values), Max(acc, Head(values)))

\* qW(q) * 0.1 * BestUnit
qW(template) ==
    IF "quality" \in DOMAIN template /\ template.quality = "Green" THEN GreenWeight
    ELSE IF "quality" \in DOMAIN template /\ template.quality = "Amber" THEN AmberWeight
    ELSE OtherWeight

\* (0.6 * succN + 0.3 * usageN + 0.1 * qW) * BestUnit * maxU * maxS
bestScore(t, maxU, maxS) ==
    SuccessWeight * NumOf(t, "renderSuccessCount") * maxU
    + UsageWeight * NumOf(t, "usageCount") * maxS
    + qW(t) * maxU * maxS

\* all.filter(t => (t.usageCount || 0) >= minUses), as positions
usedAtLeast(templates, minUses) ==
    {i \in 1..Len(templates) : NumOf(templates[i], "usageCount") >= minUses}

\* the place of the result of position i after sort((a, b) => b.score - a.score):
\* by falling score, equal scores in the order of the collection
placeOf(scored, i) ==
    Cardinality({j \in DOMAIN scored :
        scored[j].num > scored[i].num \/ (scored[j].num = scored[i].num /\ j <= i)})

\* results.sort(...).slice(0, limit)
sortedByScore(scored, limit) ==
    [p \in 1..Min(limit, Cardinality(DOMAIN scored)) |->
        scored[CHOOSE i \in DOMAIN scored : placeOf(scored, i) = p]]

\* all.map(t => ({ template: t, score }))
scoredWith(templates, all, maxU, maxS) ==
    [i \in all |-> [ template |-> templates[i],
                     num |-> bestScore(templates[i], maxU, maxS),
                     den |-> BestUnit * maxU * maxS ]]

\* getBestOf(limit, minUses) on the collection getTemplates returned
getBestOf(templates, limit, minUses) ==
    sortedByScore(
        scoredWith(templates, usedAtLeast(templates, minUses),
            maxOf([i \in 1..Len(templates) |->
                     IF i \in usedAtLeast(templates, minUses)
                     THEN NumOf(templates[i], "usageCount") ELSE 1], 1),
            maxOf([i \in 1..Len(templates) |->
                     IF i \in usedAtLeast(templates, minUses)
                     THEN NumOf(templates[i], "renderSuccessCount") ELSE 1], 1)),
        limit)

----------------------------------------------------------------------------
(* The template panel's search (src/services/search): the panel rebuilds    *)
(* its own index from the collection on every refresh and searches it.      *)
(* The definitions carry the prefix search_ where the store has a function  *)
(* of the same name.                                                        *)

STOP ==
    { <<"t", "h", "e">>, <<"a">>, <<"a", "n">>, <<"a", "n", "d">>, <<"o", "r">>,
      <<"t", "o">>, <<"o", "f">>, <<"i", "n">>, <<"o", "n">>, <<"f", "o", "r">>,
      <<"w", "i", "t", "h">>, <<"a", "t">>, <<"b", "y">>, <<"f", "r", "o", "m">>,
      <<"a", "s">>, <<"i", "s">> }

\* s.split(/[^a-z0-9]+/) without the empty pieces (the filter drops them anyway)
splitAlnum(s) == runsOf(s, LowerChars \cup DigitChars)

search_tokenize(s) ==
    uniq(dropStop(splitAlnum(trim(collapseSpaces(toLowerCase(s)))), STOP), {})

\* the body of the loop of buildIndex for the template t
search_addToIndex(t, idx) ==
    [ term |-> addAll(idx.term, lowerAll(search_tokenize(indexText(t))), t.signature),
      tag  |-> addAll(idx.tag, lowerAll(TagsOf(t)), t.signature),
      cat  |-> add(idx.cat, toLowerCase(categoryOf(t)), t.signature),
      meta |-> MapSet(idx.meta, t.signature,
                 [ name      |-> StrOf(t, "name"),
                   quality   |-> IF "quality" \in DOMAIN t THEN t.quality ELSE "Amber",
                   tags      |-> TagsOf(t),
                   category  |-> categoryOf(t),
                   textLen   |-> Len(indexText(t)),
                   updatedAt |-> NumOf(t, "updatedAt") ]) ]

RECURSIVE search_addEach(_, _)
search_addEach(templates, idx) ==
    IF templates = <<>> THEN idx
    ELSE search_addEach(Tail(templates), search_addToIndex(templates[1], idx))

search_buildIndex(templates) == search_addEach(templates, EmptyIndex)

\* qTerms.map(w => idx.term.get(w)).filter(Boolean)
RECURSIVE termHits(_, _)
termHits(term, qTerms) ==
    IF qTerms = <<>> THEN <<>>
    ELSE (IF qTerms[1] \in DOMAIN term THEN <<term[qTerms[1]]>> ELSE <<>>)
         \o termHits(term, Tail(qTerms))

\* the signatures of hits[0] that every set of hits has
inEvery(hits) ==
    IF Len(hits) = 0 THEN {}
    ELSE {s \in hits[1] : \A i \in 1..Len(hits) : s \in hits[i]}

\* candidates after the text query
textCandidates(idx, qTerms) ==
    IF Len(qTerms) > 0 THEN inEvery(termHits(idx.term, qTerms)) ELSE DOMAIN idx.meta

\* filterBySet, applied for every key of keys
filterBySet(items, map, keys) ==
    {sig \in items : \A k \in keys : k \in DOMAIN map /\ sig \in map[k]}

\* 0.5 * 0.6 * ScoreUnit, the text part when there is no text query
NeutralText == 3000

\* 0.05 * ScoreUnit, added for an indexed text shorter than ShortLen
LengthAdj == 500

ShortLen == 160

\* a variant of search_scoreOf that takes LengthAdj off a text that is not short
search_scorePenalised(idx, qTerms, tagSet, category, sig) ==
    Max(0, Min(ScoreUnit * Max(1, Len(qTerms)),
        (IF Len(qTerms) > 0
         THEN Cardinality({i \in 1..Len(qTerms) : sig \in PostingOf(idx.term, qTerms[i])})
              * TextWeight
         ELSE NeutralText)
        + ( Min(MaxTagCredits, Cardinality({t \in tagSet : sig \in PostingOf(idx.tag, t)}))
              * TagCredit
            + (IF category # <<>> /\ toLowerCase(idx.meta[sig].category) = category
               THEN CategoryCredit ELSE 0)
            + (IF idx.meta[sig].quality = "Green" THEN GreenCredit
               ELSE IF idx.meta[sig].quality = "Amber" THEN AmberCredit ELSE 0)
            + (IF idx.meta[sig].textLen > 0 /\ idx.meta[sig].textLen < ShortLen
               THEN LengthAdj ELSE 0 - LengthAdj) ) * Max(1, Len(qTerms))))

\* the score of a candidate, times den = ScoreUnit * max(1, qTerms.length)
search_scoreOf(idx, qTerms, tagSet, category, sig) ==
    Max(0, Min(ScoreUnit * Max(1, Len(qTerms)),
        (IF Len(qTerms) > 0
         THEN Cardinality({i \in 1..Len(qTerms) : sig \in PostingOf(idx.term, qTerms[i])})
              * TextWeight
         ELSE NeutralText)
        + ( Min(MaxTagCredits, Cardinality({t \in tagSet : sig \in PostingOf(idx.tag, t)}))
              * TagCredit
            + (IF category # <<>> /\ toLowerCase(idx.meta[sig].category) = category
               THEN CategoryCredit ELSE 0)
            + (IF idx.meta[sig].quality = "Green" THEN GreenCredit
               ELSE IF idx.meta[sig].quality = "Amber" THEN AmberCredit ELSE 0)
            + (IF idx.meta[sig].textLen > 0 /\ idx.meta[sig].textLen < ShortLen
               THEN LengthAdj ELSE 0) ) * Max(1, Len(qTerms))))

search_isKept(idx, qTerms, tagSet, category, minQ, sig) ==
    /\ sig \in DOMAIN idx.meta
    /\ ~(minQ = "Green" /\ idx.meta[sig].quality # "Green")
    /\ ~(minQ = "Amber" /\ idx.meta[sig].quality = "Red")
    /\ search_scoreOf(idx, qTerms, tagSet, category, sig) >= Threshold * Max(1, Len(qTerms))

search_results(idx, qTerms, tagSet, category, minQ) ==
    { [ signature |-> sig,
        num |-> search_scoreOf(idx, qTerms, tagSet, category, sig),
        den |-> ScoreUnit * Max(1, Len(qTerms)) ] :
      sig \in {s \in filterBySet(
                        filterBySet(textCandidates(idx, qTerms), idx.tag, tagSet),
                        idx.cat, IF category # <<>> THEN {category} ELSE {}) :
                  search_isKept(idx, qTerms, tagSet, category, minQ, s)} }

\* ret: the set of {signature, score = num/den} pushed, before sort and slice
search_searchTemplates(idx, p) ==
    search_results(idx, search_tokenize(StrOf(p, "q")), Range(lowerAll(TagsOf(p))),
                   toLowerCase(StrOf(p, "category")),
                   IF "minQuality" \in DOMAIN p THEN p.minQuality ELSE "Any")

----------------------------------------------------------------------------
(* Inputs of the calls *)

\* a well-formed draft: "red car"-like subject with two terms, one tag
DraftA ==
    [ name     |-> <<"C", "a", "r">>,
      subject  |-> <<"r", " ", "c">>,
      action   |-> <<"g">>,
      style    |-> <<"s">>,
      camera   |-> <<"k">>,
      category |-> <<"A", "r", "t">>,
      tags     |-> << <<"x">> >> ]

\* the canonical content of DraftA typed with other case and spacing, and
\* eleven tags of which one is a duplicate
DraftA2 ==
    [ name     |-> <<" ", "C", "a", "r", " ">>,
      subject  |-> <<"R", " ", "\t", "c">>,
      action   |-> <<"G">>,
      style    |-> <<"S", " ">>,
      camera   |-> <<"K">>,
      category |-> <<"A", "R", "T">>,
      tags     |-> << <<"a">>, <<"B">>, <<"c">>, <<"d">>, <<"e">>, <<"f">>,
                      <<"g">>, <<"h">>, <<"i">>, <<" ", "a">>, <<"j">> >>,
      favorite |-> TRUE ]

\* a draft whose category is typed as blanks only, and whose subject has
\* only one of the two terms of DraftA
DraftW ==
    [ name     |-> <<"D", "o", "g">>,
      subject  |-> <<"r">>,
      action   |-> <<"g">>,
      style    |-> <<"s">>,
      camera   |-> <<"k">>,
      category |-> <<" ", " ">>,
      tags     |-> << <<"y">> >> ]

Drafts == {DraftA, DraftA2, DraftW}

\* patches of updateTemplate: a tags-only edit, typed in upper case, and a rename
PatchTags == [tags |-> << <<"Z">> >>]

PatchName == [name |-> <<"V", "a", "n">>]

Patches == {PatchTags, PatchName}

\* patches of updateManyTemplates (the two the application sends)
PatchPinned == [pinned |-> TRUE]

PatchCategory == [category |-> <<"A", "r", "t">>]

BulkPatches == {PatchPinned, PatchCategory}

\* an id no record has
UnknownId == 0

\* import payloads (parsed JSON arrays).  PayloadTwins: two records of the
\* canonical content of DraftA that differ in id and tags, and an entry
\* without subject.  PayloadPlain: one record without id.
PayloadTwins ==
    << Spread(DraftA, [id |-> 91, usageCount |-> 5]),
       Spread(DraftA2, [id |-> 92]),
       [name |-> <<"N", "o">>, id |-> 93] >>

PayloadPlain == << DraftW >>

Payloads == {PayloadTwins, PayloadPlain}

\* queries: both terms of DraftA; one term of DraftA and one no template has
QueryBoth == [q |-> <<"R", " ", "c">>]

QueryMiss == [q |-> <<"c", " ", "q">>]

Queries == {QueryBoth, QueryMiss}

\* a legacy preset left by an earlier version of the application
OldPreset ==
    [ name |-> <<"O", "l", "d">>,
      data |-> [ subject     |-> <<"d", "o", "g">>,
                 action      |-> <<"r", "a", "n">>,
                 environment |-> <<>>,
                 style       |-> <<"o", "i", "l">>,
                 lighting    |-> <<>>,
                 camera      |-> <<>> ] ]

----------------------------------------------------------------------------
(* Bounds *)

\* calls are started at clock values 1..MaxClock
MaxClock == 3

\* a storage about to be full accepts at most this many writes before it refuses
MaxAccepted == 1

\* create, upsert and import are made while the collection is shorter than this
MaxTemplates == 3

\* the number of calls that may be suspended at the same time
MaxInflight == 2

----------------------------------------------------------------------------
(* State *)

VARIABLES
    blob,         \* localStorage[TEMPLATES_KEY], parsed: the collection
    legacy,       \* localStorage[OLD_PRESETS_KEY]
    searchIndex,  \* the singleton index, or null
    nextId,       \* the next crypto.randomUUID()
    now,          \* Date.now()
    inflight,     \* the calls suspended at `await computeSignature(...)`
    history,      \* the last two completed calls: op, arguments, ret, pre, post, trace
    storage       \* what localStorage.setItem will do (see Accepting, Refusing)

vars == <<blob, legacy, searchIndex, nextId, now, inflight, history, storage>>

\* the store as a call finds it; the call's trace starts empty
St ==
    [ blob |-> blob, legacy |-> legacy, searchIndex |-> searchIndex, nextId |-> nextId,
      storage |-> storage, trace |-> <<>> ]

Commit(st) ==
    /\ blob' = st.blob
    /\ legacy' = st.legacy
    /\ searchIndex' = st.searchIndex
    /\ nextId' = st.nextId
    /\ storage' = st.storage

FreshStore ==
    [ blob |-> <<>>, legacy |-> NoLegacy, searchIndex |-> null, nextId |-> 1,
      storage |-> Accepting, trace |-> <<>> ]

\* the store an earlier session left: it seeded the presets and saved DraftA
ReturningStore ==
    createTemplate(seedInitialTemplates(FreshStore, 0).st,
                   seedInitialTemplates(FreshStore, 0).templates, DraftA, 0).st

\* localStorage at module load: nothing (first run), the legacy presets of an
\* old version, or the collection of an earlier session
InitialStores ==
    { FreshStore,
      [FreshStore EXCEPT !.legacy = [present |-> TRUE, presets |-> <<OldPreset>>]],
      ReturningStore }

\* Module load: the index is null and no call has been made
Init ==
    /\ \E st \in InitialStores :
          /\ blob = st.blob
          /\ legacy = st.legacy
          /\ nextId = st.nextId
    /\ searchIndex = null
    /\ now = 1
    /\ inflight = <<>>
    /\ history = <<>>
    /\ storage = Accepting

\* the log after the call `entry` completed
Logged(entry) ==
    IF Len(history) < 2 THEN Append(history, entry) ELSE <<history[2], entry>>

\* a call that ran from its read to its return with no other call in between:
\* the clock advances and the call is logged
Done(call, pre, f) ==
    /\ Commit(f.st)
    /\ now' = now + 1
    /\ inflight' = inflight
    /\ history' = Logged(Spread(call, [ ret |-> f.ret, pre |-> pre, post |-> f.st.blob,
                                        trace |-> f.st.trace ]))

CreateOn(data, r) ==
    /\ Len(r.templates) < MaxTemplates
    /\ Done([op |-> "create", data |-> data], r.templates,
            createTemplate(r.st, r.templates, data, now))

Create(data) == now <= MaxClock /\ CreateOn(data, getTemplates(St, now))

UpsertOn(data, r) ==
    /\ Len(r.templates) < MaxTemplates
    /\ Done([op |-> "upsert", data |-> data], r.templates,
            upsertTemplate(r.st, r.templates, data, now))

Upsert(data) == now <= MaxClock /\ UpsertOn(data, getTemplates(St, now))

UpdateByIdOn(id, updates, r) ==
    /\ id \in {r.templates[i].id : i \in 1..Len(r.templates)} \cup {UnknownId}
    /\ Done([op |-> "updateById", id |-> id, updates |-> updates], r.templates,
            updateTemplate(r.st, r.templates, id, updates, now))

UpdateById(id, updates) ==
    now <= MaxClock /\ UpdateByIdOn(id, updates, getTemplates(St, now))

DeleteByIdOn(id, r) ==
    /\ id \in {r.templates[i].id : i \in 1..Len(r.templates)}
    /\ Done([op |-> "deleteById", id |-> id], r.templates,
            deleteTemplate(r.st, r.templates, id))

DeleteById(id) == now <= MaxClock /\ DeleteByIdOn(id, getTemplates(St, now))

DeleteManyOn(idSet, r) ==
    /\ idSet \subseteq {r.templates[i].id : i \in 1..Len(r.templates)}
    /\ Done([op |-> "deleteMany", ids |-> idSet], r.templates,
            deleteManyTemplates(r.st, r.templates, idSet))

DeleteMany(idSet) == now <= MaxClock /\ DeleteManyOn(idSet, getTemplates(St, now))

UpdateManyOn(idSet, updates, r) ==
    /\ idSet \subseteq {r.templates[i].id : i \in 1..Len(r.templates)}
    /\ Done([op |-> "updateMany", ids |-> idSet, updates |-> updates], r.templates,
            updateManyTemplates(r.st, r.templates, idSet, updates, now))

UpdateMany(idSet, updates) ==
    now <= MaxClock /\ UpdateManyOn(idSet, updates, getTemplates(St, now))

ImportAllOn(payload, r) ==
    /\ Len(r.templates) < MaxTemplates
    /\ Done([op |-> "importAll", payload |-> payload], r.templates,
            importTemplates(r.st, r.templates, payload, now))

ImportAll(payload) == now <= MaxClock /\ ImportAllOn(payload, getTemplates(St, now))

ApplyUsageOn(signature, r) ==
    Done([op |-> "applyUsage", signature |-> signature], r.templates,
         applyTemplate(r.st, r.templates, signature, now))

ApplyUsage(signature) == now <= MaxClock /\ ApplyUsageOn(signature, getTemplates(St, now))

RecordSuccessOn(signature, r) ==
    Done([op |-> "recordSuccess", signature |-> signature], r.templates,
         recordSuccess(r.st, r.templates, signature, now))

RecordSuccess(signature) ==
    now <= MaxClock /\ RecordSuccessOn(signature, getTemplates(St, now))

\* searchTemplates(options, allTemplates) with the collection the caller holds
SearchWith(options, st, allTemplates) ==
    Done([op |-> "search", options |-> options], allTemplates,
         [st |-> st, ret |-> searchTemplates(st.searchIndex, options, allTemplates)])

SearchOn(options, st) == SearchWith(options, st, getTemplates(st, now).templates)

Search(options) == now <= MaxClock /\ SearchOn(options, getSearchIndex(St, now))

\* the panel: refreshTemplates (read, rebuild its own index), then the search
PanelSearchOn(p, r) ==
    Done([op |-> "panelSearch", options |-> p], r.templates,
         [st |-> r.st, ret |-> search_searchTemplates(search_buildIndex(r.templates), p)])

PanelSearch(p) == now <= MaxClock /\ PanelSearchOn(p, getTemplates(St, now))

\* the ids bulk calls are made with: two of the stored ids
IdPairs == {S \in SUBSET {blob[i].id : i \in 1..Len(blob)} : Cardinality(S) = 2}

\* the signatures applyUsage and recordSuccess are called with
KnownSignatures == {computeSignature(d) : d \in Drafts}

Next ==
    \/ \E d \in Drafts : Create(d)
    \/ \E d \in Drafts : Upsert(d)
    \/ \E id \in {blob[i].id : i \in 1..Len(blob)} \cup {UnknownId}, u \in Patches :
          UpdateById(id, u)
    \/ \E id \in {blob[i].id : i \in 1..Len(blob)} : DeleteById(id)
    \/ \E S \in IdPairs : DeleteMany(S)
    \/ \E S \in IdPairs, u \in BulkPatches : UpdateMany(S, u)
    \/ \E p \in Payloads : ImportAll(p)
    \/ \E sig \in KnownSignatures : ApplyUsage(sig)
    \/ \E sig \in KnownSignatures : RecordSuccess(sig)
    \/ \E o \in Queries : Search(o)
    \/ \E o \in Queries : PanelSearch(o)

Spec == Init /\ [][Next]_vars

----------------------------------------------------------------------------
(* Overlapping calls.  A call reads the collection, is suspended at         *)
(* `await computeSignature(...)`, and resumes later with the collection it  *)
(* read; other calls may start and complete in between.                     *)

\* the call c resumes on the store st
resumed(st, c) ==
    IF c.op = "create"
    THEN createTemplate(st, c.templates, c.data, c.began)
    ELSE upsertTemplate(st, c.templates, c.data, c.began)

\* the call reads the collection (r) and is suspended
BeginOn(op, data, r) ==
    /\ Len(r.templates) < MaxTemplates
    /\ Commit(r.st)
    /\ now' = now + 1
    /\ inflight' = Append(inflight,
                      [op |-> op, data |-> data, templates |-> r.templates, began |-> now])
    /\ history' = history

Begin(op, data) ==
    /\ now <= MaxClock
    /\ Len(inflight) < MaxInflight
    /\ BeginOn(op, data, getTemplates(St, now))

\* the suspended call c resumes, writes (f) and returns
FinishWith(c, f) ==
    /\ Commit(f.st)
    /\ now' = now
    /\ history' = Logged([ op |-> c.op, data |-> c.data, ret |-> f.ret,
                           pre |-> c.templates, post |-> f.st.blob,
                           began |-> c.began, at |-> now ])

Finish(i) ==
    /\ FinishWith(inflight[i], resumed(St, inflight[i]))
    /\ inflight' = [j \in 1..(Len(inflight) - 1) |->
                       IF j < i THEN inflight[j] ELSE inflight[j + 1]]

NextRace ==
    \/ \E op \in {"create", "upsert"}, d \in Drafts : Begin(op, d)
    \/ \E i \in 1..Len(inflight) : Finish(i)

SpecRace == Init /\ [][NextRace]_vars

----------------------------------------------------------------------------
(* The index alone: entries are added and removed, from the empty index *)

\* the records the drafts give when created
IndexTemplates == {createTemplate(FreshStore, <<>>, d, 0).ret : d \in Drafts}

InitIndex ==
    /\ blob = <<>>
    /\ legacy = NoLegacy
    /\ searchIndex = EmptyIndex
    /\ nextId = 1
    /\ now = 1
    /\ inflight = <<>>
    /\ history = <<>>
    /\ storage = Accepting

IndexStep(op, t, index) ==
    /\ now <= MaxClock
    /\ searchIndex' = index
    /\ now' = now + 1
    /\ history' = Logged([op |-> op, template |-> t, pre |-> searchIndex])
    /\ UNCHANGED <<blob, legacy, nextId, inflight, storage>>

AddEntry(t) == IndexStep("addEntry", t, addToIndex(t, searchIndex))

RemoveEntry(t) == IndexStep("removeEntry", t, removeFromIndex(t, searchIndex))

NextIndex ==
    \/ \E t \in IndexTemplates : AddEntry(t)
    \/ \E t \in IndexTemplates : RemoveEntry(t)

SpecIndex == InitIndex /\ [][NextIndex]_vars

----------------------------------------------------------------------------
(* normalizeTemplate alone, over drafts with absent, empty, blank and       *)
(* mixed-case values, and tag lists with duplicates, padding and more than  *)
(* ten entries                                                              *)

undefined == [undefined |-> TRUE]

\* { k: v }, nothing when v is undefined
Field(k, v) == [x \in (IF v = undefined THEN {} ELSE {k}) |-> v]

TextValues == {undefined, <<>>, <<" ", " ">>, <<" ", "a", "B", " ", "\t", "c", " ">>}

TagValues ==
    { undefined, <<>>,
      << <<"a">>, <<" ", "A", " ">>, <<"b">>, <<"a">> >>,
      DraftA2.tags }

\* a draft with the name, the subject, every other prompt field, the category
\* and the tags given
DraftOf(name, subject, other, category, tags) ==
    Spread(Field("name", name),
    Spread(Field("subject", subject),
    Spread(Field("action", other),
    Spread(Field("environment", other),
    Spread(Field("style", other),
    Spread(Field("lighting", other),
    Spread(Field("camera", other),
    Spread(Field("category", category), Field("tags", tags)))))))))

InitNormalize ==
    /\ blob = <<>>
    /\ legacy = NoLegacy
    /\ searchIndex = null
    /\ nextId = 1
    /\ now = 1
    /\ inflight = <<>>
    /\ history = <<>>
    /\ storage = Accepting

NormalizeStep(input) ==
    /\ history' = Logged([ op |-> "normalizeTemplate", input |-> input,
                           ret |-> normalizeTemplate(input) ])
    /\ UNCHANGED <<blob, legacy, searchIndex, nextId, now, inflight, storage>>

\* normalizeTemplate(x) for a draft x
Normalize(x) == history = <<>> /\ NormalizeStep(x)

\* normalizeTemplate applied to what it returned
NormalizeAgain == Len(history) = 1 /\ NormalizeStep(history[1].ret)

NextNormalize ==
    \/ \E name, subject, other, category \in TextValues, tags \in TagValues :
          Normalize(DraftOf(name, subject, other, category, tags))
    \/ NormalizeAgain

SpecNormalize == InitNormalize /\ [][NextNormalize]_vars

----------------------------------------------------------------------------
(* validateTemplate alone, over names of every length around the limits,    *)
(* bare and padded, and prompt fields that pass or break each other rule    *)

\* a name of n characters with no white space at its ends
NameOfLen(n) == [i \in 1..n |-> IF i % 7 = 4 /\ i < n THEN " " ELSE "a"]

Padded(s) == <<" ">> \o s \o <<"\t", " ">>

\* the lengths around the limits of the name rule
NameLens == {0, MinNameLen - 1, MinNameLen, MaxNameLen, MaxNameLen + 1}

\* the names validated with the length of what trim leaves of them: absent,
\* empty, blank, and each length bare and padded
Names ==
    { [given |-> FALSE, name |-> <<>>, trimmed |-> 0] }
    \cup { [given |-> TRUE, name |-> NameOfLen(n), trimmed |-> n] : n \in NameLens }
    \cup { [given |-> TRUE, name |-> Padded(NameOfLen(n)), trimmed |-> n] : n \in NameLens }

\* six prompt fields that pass every rule
Fields ==
    [ subject     |-> <<"A", " ", "c", "a", "t">>,
      action      |-> <<"s", "a", "t">>,
      environment |-> <<"d", "e", "n">>,
      style       |-> <<"i", "n", "k">>,
      lighting    |-> <<"d", "i", "m">>,
      camera      |-> <<"l", "o", "w">> ]

\* prompt fields that pass every rule: all six, four of six, a subject of MaxSubjectLen
GoodFields ==
    { Fields,
      [k \in Range(PromptFields) \ {"lighting", "camera"} |-> Fields[k]],
      [Fields EXCEPT !.camera = <<" ">>, !.action = <<>>],
      [Fields EXCEPT !.subject = [i \in 1..MaxSubjectLen |-> "s"]] }

\* prompt fields that break a rule: the subject, the count, the intensifiers,
\* the contradiction
OtherFields ==
    { [k \in Range(PromptFields) \ {"subject"} |-> Fields[k]],
      [Fields EXCEPT !.subject = <<" ", " ">>],
      [Fields EXCEPT !.subject = [i \in 1..(MaxSubjectLen + 1) |-> "s"]],
      [k \in {"subject", "action", "style"} |-> Fields[k]],
      [Fields EXCEPT !.style = VeryVery],
      [Fields EXCEPT !.camera = UltraUltra],
      [Fields EXCEPT !.lighting = SoftStudioLighting, !.style = HighContrast] }

InitValidate ==
    /\ blob = <<>>
    /\ legacy = NoLegacy
    /\ searchIndex = null
    /\ nextId = 1
    /\ now = 1
    /\ inflight = <<>>
    /\ history = <<>>
    /\ storage = Accepting

\* validateTemplate({name, ...fields})
Validate(n, fields) ==
    /\ history = <<>>
    /\ history' = Logged([ op |-> "validateTemplate", name |-> n, fields |-> fields,
                           ret |-> validateTemplate(
                                      IF n.given THEN Spread([name |-> n.name], fields)
                                      ELSE fields) ])
    /\ UNCHANGED <<blob, legacy, searchIndex, nextId, now, inflight, storage>>

NextValidate == \E n \in Names, fields \in GoodFields \cup OtherFields : Validate(n, fields)

SpecValidate == InitValidate /\ [][NextValidate]_vars

----------------------------------------------------------------------------
(* importTemplates from the text of a file: JSON.parse, Array.isArray, the  *)
(* read of the collection and the loop, all inside one try block            *)

\* a JSON number (see isString)
Number7 == <<"7 (number)">>

\* one good record followed by a record whose name is a number
PayloadRaising ==
    << Spread(DraftA, [id |-> 94]),
       [name |-> Number7, subject |-> <<"r">>, id |-> 95] >>

\* a text that is no JSON, a JSON object, and JSON arrays
NotJson == [parses |-> FALSE, isArray |-> FALSE, items |-> <<>>]

JsonObject == [parses |-> TRUE, isArray |-> FALSE, items |-> <<>>]

JsonArray(items) == [parses |-> TRUE, isArray |-> TRUE, items |-> items]

Jsons == {NotJson, JsonObject} \cup {JsonArray(p) : p \in Payloads \cup {PayloadRaising}}

\* JSON.parse throws, or the Error of the Array.isArray test is thrown:
\* the catch block returns before the collection is read
ImportRejected(json) ==
    Done([op |-> "importAll", json |-> json, payload |-> json.items], blob, importFailed(St))

ImportParsed(json, r) ==
    Done([op |-> "importAll", json |-> json, payload |-> json.items], r.templates,
         importTemplates(r.st, r.templates, json.items, now))

\* importTemplates(jsonString)
ImportJson(json) ==
    /\ now <= MaxClock
    /\ IF json.parses /\ json.isArray
       THEN ImportParsed(json, getTemplates(St, now))
       ELSE ImportRejected(json)

NextImport ==
    \/ \E json \in Jsons : ImportJson(json)
    \/ \E options \in Queries : Search(options)
    \/ \E ids \in IdPairs : DeleteMany(ids)

SpecImport == Init /\ [][NextImport]_vars

----------------------------------------------------------------------------
(* The two searches over collections grown by createTemplate, with text,    *)
(* tag and category filters                                                 *)

\* one token, typed in upper case; a token of the preset only; a token no
\* template has
QueryOne == [q |-> <<"R">>]

QueryCat == [q |-> <<"c", "a", "t">>]

QueryNone == [q |-> <<"q">>]

\* tag filters: one tag, two tags no template has both, a tag with a text
\* query, two tags with a category
TagsOne == [tags |-> << <<"X">> >>]

TagsTwo == [tags |-> << <<"x">>, <<"y">> >>]

TagsAndText == [q |-> <<"r">>, tags |-> << <<"y">> >>]

TagsAndCategory == [tags |-> << <<"x">>, <<"y">> >>, category |-> <<"A", "r", "t">>]

Filters == {QueryOne, QueryCat, QueryNone, QueryBoth,
            TagsOne, TagsTwo, TagsAndText, TagsAndCategory}

NextSearch ==
    \/ \E data \in Drafts : Create(data)
    \/ \E options \in Filters : Search(options)
    \/ \E p \in Filters : PanelSearch(p)

SpecSearch == Init /\ [][NextSearch]_vars

----------------------------------------------------------------------------
(* getBestOf over collections of three templates of every quality and of    *)
(* several usage and success counts                                         *)

\* DraftA with a name too short (Red) and with a doubled intensifier (Amber)
DraftRed == [DraftA EXCEPT !.name = <<"C", "a">>]

DraftAmber == [DraftA EXCEPT !.style = VeryVery]

\* (usageCount, renderSuccessCount) of the templates
Counts == {<<10, 8>>, <<10, 2>>, <<1, 1>>, <<0, 0>>}

\* the record createTemplate stores for the draft with the counts, under the id
Used(data, counts, id) ==
    createTemplate([FreshStore EXCEPT !.nextId = id], <<>>,
                   Spread(data, [usageCount |-> counts[1], renderSuccessCount |-> counts[2]]),
                   0).ret

UsedTemplates(id) == {Used(d, c, id) : d \in {DraftA, DraftAmber, DraftRed}, c \in Counts}

InitBest ==
    /\ blob \in {<<a, b, c>> : a \in UsedTemplates(1), b \in UsedTemplates(2),
                                c \in UsedTemplates(3)}
    /\ legacy = NoLegacy
    /\ searchIndex = null
    /\ nextId = 4
    /\ now = 1
    /\ inflight = <<>>
    /\ history = <<>>
    /\ storage = Accepting

BestOfOn(r) ==
    Done([op |-> "getBestOf"], r.templates,
         [st |-> r.st, ret |-> getBestOf(r.templates, DefaultLimit, DefaultMinUses)])

\* getBestOf(), as the panel calls it
BestOf == history = <<>> /\ BestOfOn(getTemplates(St, now))

NextBest == BestOf

SpecBest == InitBest /\ [][NextBest]_vars

----------------------------------------------------------------------------
(* getAll at module load over every kind of persisted collection (none,     *)
(* unreadable, complete, lacking the newer fields) and of legacy blob        *)
(* (none, not an array, an empty array, arrays of old presets)              *)

\* a legacy entry with the content of the built-in preset
TwinPreset == STYLE_PRESETS[1]

\* a legacy entry with no data
BrokenPreset == [name |-> <<"B", "a", "d">>]

Legacies ==
    { NoLegacy, NotArrayLegacy }
    \cup { [present |-> TRUE, presets |-> p] :
              p \in { <<>>, <<OldPreset>>, <<OldPreset, TwinPreset>>,
                      <<OldPreset, BrokenPreset>> } }

\* the record as a version before quality and the counters stored it
Older(t) == [k \in DOMAIN t \ {"quality", "usageCount", "renderSuccessCount"} |-> t[k]]

Blobs ==
    { <<>>, Unreadable, ReturningStore.blob,
      [i \in 1..Len(ReturningStore.blob) |-> Older(ReturningStore.blob[i])] }

InitBootstrap ==
    /\ blob \in Blobs
    /\ legacy \in Legacies
    /\ searchIndex = null
    /\ nextId = ReturningStore.nextId
    /\ now = 1
    /\ inflight = <<>>
    /\ history = <<>>
    /\ storage = Accepting

GetAllOn(r) ==
    Done([op |-> "getAll", blobBefore |-> blob, legacyBefore |-> legacy], r.templates,
         [st |-> r.st, ret |-> r.templates])

\* getTemplates()
GetAll == now <= MaxClock /\ GetAllOn(getTemplates(St, now))

NextBootstrap ==
    \/ GetAll
    \/ \E data \in Drafts : Create(data)
    \/ \E t \in Range(getRawTemplates(St)) : DeleteById(t.id)

SpecBootstrap == InitBootstrap /\ [][NextBootstrap]_vars

----------------------------------------------------------------------------
(* Both searches with a one-token text query over collections of two        *)
(* templates of every quality, with short and long prompt text, with and    *)
(* without the token                                                        *)

\* DraftA with a subject of more than ShortLen characters that has the token "r"
DraftLong == [DraftA EXCEPT !.subject = <<"r", " ">> \o [i \in 1..ShortLen |-> "x"]]

\* DraftLong with a name too short (Red)
DraftLongRed == [DraftLong EXCEPT !.name = <<"C", "a">>]

ScoredDrafts == {DraftA, DraftAmber, DraftRed, DraftLong, DraftLongRed, DraftW}

\* the record createTemplate stores for the draft under the id
Stored(data, id) == createTemplate([FreshStore EXCEPT !.nextId = id], <<>>, data, 0).ret

InitScore ==
    /\ blob \in {<<Stored(a, 1), Stored(b, 2)>> : a, b \in ScoredDrafts}
    /\ blob[1].signature # blob[2].signature
    /\ legacy = NoLegacy
    /\ searchIndex = null
    /\ nextId = 3
    /\ now = 1
    /\ inflight = <<>>
    /\ history = <<>>
    /\ storage = Accepting

NextScore ==
    \/ \E options \in {QueryOne, QueryCat, QueryNone} : Search(options)
    \/ \E p \in {QueryOne, QueryCat, QueryNone} : PanelSearch(p)

SpecScore == InitScore /\ [][NextScore]_vars

----------------------------------------------------------------------------
(* The mutations on a storage that other data of the origin may fill up:    *)
(* between two calls the storage becomes full at once, full after some      *)
(* writes, or free again                                                    *)

Storages == {Accepting} \cup {Refusing(k) : k \in 0..MaxAccepted}

\* localStorage fills up or is cleaned up, outside the store
StorageChanges(to) ==
    /\ storage # to
    /\ storage' = to
    /\ UNCHANGED <<blob, legacy, searchIndex, nextId, now, inflight, history>>

NextStorage ==
    \/ \E to \in Storages : StorageChanges(to)
    \/ \E data \in Drafts : Create(data)
    \/ \E data \in Drafts : Upsert(data)
    \/ \E id \in {blob[i].id : i \in 1..Len(blob)}, updates \in Patches :
          UpdateById(id, updates)
    \/ \E id \in {blob[i].id : i \in 1..Len(blob)} : DeleteById(id)
    \/ \E ids \in IdPairs : DeleteMany(ids)
    \/ \E ids \in IdPairs, updates \in BulkPatches : UpdateMany(ids, updates)
    \/ \E payload \in Payloads : ImportAll(payload)

SpecStorage == Init /\ [][NextStorage]_vars

----------------------------------------------------------------------------
(* The claims *)

\* the last completed call and the one before it
Last == history[Len(history)]

Prev == history[Len(history) - 1]

\* C1: whenever the singleton index is live and no mutation is in progress,
\* it equals buildIndex of the persisted collection: after any sequence of
\* completed create, upsert, updateById, deleteById, deleteMany, updateMany
\* and importAll calls its four maps hold exactly what a rebuild would give.
C1_IndexEqualsRebuild ==
    searchIndex # null => searchIndex = buildIndex(blob)

\* the signatures stored in a collection
SignaturesOf(templates) == {templates[i].signature : i \in 1..Len(templates)}

\* the positions of the records of a collection that have the signature
WithSignature(templates, signature) ==
    {i \in 1..Len(templates) : templates[i].signature = signature}

\* the last two calls were upserts of drafts of identical canonical content
UpsertedTwice ==
    /\ Len(history) = 2
    /\ Prev.op = "upsert"
    /\ Last.op = "upsert"
    /\ computeSignature(Prev.data) = computeSignature(Last.data)

\* one record has the signature, the first call created it, the second updated
\* it and kept its id, createdAt, usageCount and renderSuccessCount
OneRecordKept ==
    /\ Cardinality(WithSignature(Last.post, computeSignature(Last.data))) = 1
    /\ Prev.ret.status = "created"
    /\ Last.ret.status = "updated"
    /\ \A k \in {"id", "createdAt", "usageCount", "renderSuccessCount"} :
          Last.ret.template[k] = Prev.ret.template[k]

\* C2: upsert called twice, one call after the other, with drafts of
\* identical canonical content leaves exactly one record with that signature;
\* the first call returns "created", the second "updated", and id, createdAt,
\* usageCount and renderSuccessCount after the second call are those after
\* the first.
C2_UpsertTwiceOneRecord == UpsertedTwice => OneRecordKept

\* C2, amended: the same, when no stored record has that signature before
\* the first of the two calls.
C2_UpsertTwiceOnNewContent ==
    (UpsertedTwice /\ computeSignature(Prev.data) \notin SignaturesOf(Prev.pre))
        => OneRecordKept

\* C2, its case: two upserts of the same content typed differently, the
\* content not stored before, the second returning "updated"
C2_Witness ==
    /\ UpsertedTwice
    /\ computeSignature(Prev.data) \notin SignaturesOf(Prev.pre)
    /\ Prev.data # Last.data
    /\ Last.ret.status = "updated"

\* the records the last call wrote: the record created, updated or merged,
\* the records of the ids given to updateMany, the records importAll appended
Written ==
    IF Last.op = "create" THEN {Last.ret}
    ELSE IF Last.op = "upsert" THEN {Last.ret.template}
    ELSE IF Last.op = "updateById" THEN {Last.ret} \ {null}
    ELSE IF Last.op = "updateMany"
         THEN {Last.post[i] : i \in {j \in 1..Len(Last.post) : Last.post[j].id \in Last.ids}}
    ELSE IF Last.op = "importAll"
         THEN {Last.post[i] : i \in (Len(Last.pre) + 1)..Len(Last.post)}
    ELSE {}

\* C3: after every completed create, upsert, updateById, updateMany and
\* importAll, each record r written by that call has
\* r.signature = computeSignature(r): the stored signature is the hash of
\* the canonical form of r's own stored name, prompt fields and category.
C3_SignatureOfStoredContent ==
    Len(history) > 0 => \A r \in Written : r.signature = computeSignature(r)

\* the keys a patch may touch without touching the signed content
UnsignedKeys ==
    {"tags", "favorite", "pinned", "usageCount", "renderSuccessCount", "lastUsed", "thumbnail"}

\* the last call was an update whose patch touches unsigned keys only
UnsignedUpdate ==
    /\ Len(history) > 0
    /\ \/ Last.op \in {"applyUsage", "recordSuccess"}
       \/ Last.op \in {"updateById", "updateMany"} /\ DOMAIN Last.updates \subseteq UnsignedKeys

\* C4: for every record a sequence of store operations can produce, an
\* updateById, updateMany, applyUsage or recordSuccess whose patch touches
\* only tags, favorite, pinned, usageCount, renderSuccessCount, lastUsed or
\* thumbnail leaves the record's signature unchanged.
C4_UnsignedPatchKeepsSignature ==
    UnsignedUpdate =>
        /\ Len(Last.post) = Len(Last.pre)
        /\ \A i \in 1..Len(Last.pre) : Last.post[i].signature = Last.pre[i].signature

\* every signature returned is in the term posting list of every token
InEveryTermPosting(index, tokens, results) ==
    \A r \in results : \A i \in 1..Len(tokens) :
        r.signature \in PostingOf(index.term, tokens[i])

\* C5: for any index and any text query with a non-empty token set T, every
\* signature the search returns is in the term posting list of every token
\* of T (intersection, not union): a template with only some of the tokens
\* is never returned, and the result is empty if a token is in no posting
\* list.  Stated for the store's search over its singleton index and for the
\* panel's search over the index it rebuilds.
C5_SearchIntersectsPostings ==
    /\ (Len(history) > 0 /\ Last.op = "search")
          => InEveryTermPosting(searchIndex, tokenize(StrOf(Last.options, "q")), Last.ret)
    /\ (Len(history) > 0 /\ Last.op = "panelSearch")
          => InEveryTermPosting(search_buildIndex(Last.pre),
                                search_tokenize(StrOf(Last.options, "q")), Last.ret)

\* the last call was an upsert that merged the draft into a stored record
UpsertMerged == Len(history) > 0 /\ Last.op = "upsert" /\ Last.ret.status = "updated"

\* the record the last upsert merged into, as it was before the call
MergedInto == Last.pre[findIndexBySignature(Last.pre, computeSignature(Last.data))]

\* the union of the stored tags and the canonical incoming tags
TagUnion == Range(TagsOf(MergedInto)) \cup Range(normalizeTemplate(Last.data).tags)

\* the last call was an updateById with a tags patch on a stored record
TagsPatched ==
    /\ Len(history) > 0
    /\ Last.op = "updateById"
    /\ "tags" \in DOMAIN Last.updates
    /\ Last.ret # null

\* C6: when upsert merges a draft into a stored record, the record's tag set
\* is the union of the stored tags and the canonical incoming tags, no tag of
\* either side being lost; updateById with a tags patch replaces the tag list.
C6_UpsertUnionsTags ==
    /\ UpsertMerged => Range(Last.ret.template.tags) = TagUnion
    /\ TagsPatched => Last.ret.tags = Last.updates.tags

\* C6, amended: the merged tag list is the union in ascending order cut to
\* its first MaxTags tags, so the greatest tags of a union of more than
\* MaxTags are dropped; updateById with a tags patch replaces the tag list.
C6_UpsertKeepsFirstTagsOfUnion ==
    /\ UpsertMerged =>
          LET tags == Last.ret.template.tags
          IN  /\ Range(tags) \subseteq TagUnion
              /\ Len(tags) = Min(MaxTags, Cardinality(TagUnion))
              /\ \A i, j \in 1..Len(tags) : i < j => StrLess(tags[i], tags[j])
              /\ \A t \in TagUnion \ Range(tags) : \A i \in 1..Len(tags) : StrLess(tags[i], t)
    /\ TagsPatched => Last.ret.tags = Last.updates.tags

\* C6, its case: a merge whose union has more than MaxTags tags
C6_Witness == UpsertMerged /\ Cardinality(TagUnion) > MaxTags

\* the record a completed create or upsert call wrote
RecordOf(call) == IF call.op = "create" THEN call.ret ELSE call.ret.template

\* the last two calls to complete overlapped: the second to complete read
\* the collection before the first to complete wrote it
Overlapped == Len(history) = 2 /\ Last.began < Prev.at

\* C7: when two store mutations overlap, each reading the collection before
\* the other writes it, both return and the persisted collection holds only
\* one writer's change; no check of the store detects or prevents it.  As an
\* invariant: whenever two calls overlapped, the collection the second wrote
\* is the one it read with its own record put in, and the record the first
\* one returned is not in it.
C7_OverlapLosesFirstWrite ==
    Overlapped =>
        /\ RecordOf(Prev) \notin Range(Last.post)
        /\ RecordOf(Last) \in Range(Last.post)
        /\ Range(Last.post) \subseteq Range(Last.pre) \cup {RecordOf(Last)}

\* C7, its case: two overlapping creates have returned, and the persisted
\* collection holds the record of the second but not of the first
C7_Witness ==
    /\ Overlapped
    /\ Prev.op = "create"
    /\ Last.op = "create"
    /\ inflight = <<>>
    /\ RecordOf(Last) \in Range(blob)
    /\ RecordOf(Prev) \notin Range(blob)

\* the last two index operations were addEntry(t) and then removeEntry(t)
AddedThenRemoved ==
    /\ Len(history) = 2
    /\ Prev.op = "addEntry"
    /\ Last.op = "removeEntry"
    /\ Prev.template = Last.template

\* C8: for any index state I and any template t that has a signature,
\* addEntry(t) and then removeEntry(t) give an index equal to I in all four
\* maps, with no residual empty-set keys.
C8_AddThenRemoveRestores == AddedThenRemoved => searchIndex = Prev.pre

\* C9: normalizeTemplate is idempotent: for every draft x (absent, empty,
\* blank and mixed-case name, prompt fields and category; tag lists with
\* duplicates, padding and more than ten entries),
\* normalizeTemplate(normalizeTemplate(x)) = normalizeTemplate(x), field by
\* field.
C9_NormalizeIdempotent ==
    (Len(history) = 2 /\ Last.op = "normalizeTemplate" /\ Last.input = Prev.ret)
        => \A k \in DOMAIN Prev.ret : Last.ret[k] = Prev.ret[k]

\* the last completed call was an importAll
Imported == Len(history) > 0 /\ Last.op = "importAll"

\* the records the last call appended to the collection it read
Appended == SubSeq(Last.post, Len(Last.pre) + 1, Len(Last.post))

\* the payload entries that have a subject and whose signature is not in the
\* collection the call read
Storable ==
    {i \in 1..Len(Last.payload) :
        /\ StrOf(Last.payload[i], "subject") # <<>>
        /\ computeSignature(Last.payload[i]) \notin SignaturesOf(Last.pre)}

\* the first storable payload entry that has the signature
FirstOf(signature) ==
    CHOOSE i \in Storable :
        /\ computeSignature(Last.payload[i]) = signature
        /\ \A j \in Storable : computeSignature(Last.payload[j]) = signature => i <= j

\* C10: importAll stores at most one record per distinct signature and no
\* record whose signature is already in the collection: of several payload
\* records of identical canonical content that differ in id or tags exactly
\* one, the first encountered, is stored, with its own id and its own
\* (normalized) tags, not merged with the others', and importedCount is the
\* number of records stored.
C10_ImportStoresFirstPerSignature ==
    Imported =>
        /\ SubSeq(Last.post, 1, Len(Last.pre)) = Last.pre
        /\ \A i, j \in 1..Len(Appended) :
              Appended[i].signature = Appended[j].signature => i = j
        /\ SignaturesOf(Appended) \cap SignaturesOf(Last.pre) = {}
        /\ SignaturesOf(Appended) = {computeSignature(Last.payload[i]) : i \in Storable}
        /\ \A i \in 1..Len(Appended) :
              /\ "id" \in DOMAIN Last.payload[FirstOf(Appended[i].signature)]
                    => Appended[i].id = Last.payload[FirstOf(Appended[i].signature)].id
              /\ Appended[i].tags =
                    normalizeTemplate(Last.payload[FirstOf(Appended[i].signature)]).tags
        /\ Last.ret.importedCount = Len(Appended)

\* C10, its case: the payload holds two records of the same content with
\* different ids and tags; the first is stored with its one tag, the second
\* is not, and importedCount is 1
C10_Witness ==
    /\ Imported
    /\ Cardinality({i \in Storable :
           computeSignature(Last.payload[i]) = computeSignature(DraftA)}) = 2
    /\ Last.ret.importedCount = 1
    /\ Appended[1].id = Last.payload[1].id
    /\ Appended[1].tags = << <<"x">> >>
    /\ Last.payload[2].id \notin {Last.post[i].id : i \in 1..Len(Last.post)}

\* the last call was importTemplates of a text
ImportedJson == Len(history) > 0 /\ Last.op = "importAll" /\ "json" \in DOMAIN Last

\* processing a record of the payload raises: a record with a subject has a
\* text field that is not a string
Raising(payload) ==
    \E i \in 1..Len(payload) : StrOf(payload[i], "subject") # <<>> /\ raises(payload[i])

\* the text does not parse, is no array, or a record raises
Unimportable(json) == ~json.parses \/ ~json.isArray \/ Raising(json.items)

\* the step is a call of importTemplates with a text that cannot be imported
FailedImportStep == now' # now /\ ImportedJson' /\ Unimportable(Last'.json)

\* C11: importAll never throws to its caller: when the payload fails to
\* parse, is not an array, or processing a record raises, it returns
\* {success: false, importedCount: 0} and the persisted collection and the
\* search index are exactly as before the call.
C11_FailedImportChangesNothing ==
    [][FailedImportStep =>
          /\ Last'.ret = [success |-> FALSE, importedCount |-> 0]
          /\ blob' = blob
          /\ searchIndex' = searchIndex]_vars

\* C11, amended: ... it returns {success: false, importedCount: 0} and no
\* record of the payload is written: the persisted collection and the index
\* are as before the call when the text does not parse or is no array, and
\* as the read of the collection (getAll, with its first-run bootstrap or
\* backfill) left them when a record raises.
C11_FailedImportWritesNoRecord ==
    [][FailedImportStep =>
          /\ Last'.ret = [success |-> FALSE, importedCount |-> 0]
          /\ IF Last'.json.parses /\ Last'.json.isArray
             THEN /\ blob' = getTemplates(St, now).st.blob
                  /\ searchIndex' = getTemplates(St, now).st.searchIndex
             ELSE /\ blob' = blob
                  /\ searchIndex' = searchIndex]_vars

\* C11, its case: a record raised after a good record had been pushed, on a
\* collection that was not empty, and nothing was written
C11_Witness ==
    /\ ImportedJson
    /\ Last.json = JsonArray(PayloadRaising)
    /\ computeSignature(DraftA) \notin SignaturesOf(Last.pre)
    /\ ~Last.ret.success
    /\ Last.post = Last.pre
    /\ Len(Last.pre) > 0

\* the calls that rewrite stored records in place
Touching == {"upsert", "updateById", "updateMany", "applyUsage", "recordSuccess"}

\* the last call rewrote the record at position k of the collection it read
Touched(k) == k <= Len(Last.post) /\ Last.post[k] # Last.pre[k]

CanonicalTags(tags) ==
    /\ Len(tags) <= MaxTags
    /\ \A i, j \in 1..Len(tags) : tags[i] = tags[j] => i = j
    /\ \A i \in 1..Len(tags) : trim(tags[i]) = tags[i] /\ toLowerCase(tags[i]) = tags[i]

\* C13: in every reachable store state each stored template's tags list is
\* canonical (at most 10 entries, no duplicates, every entry trimmed and
\* lowercase), after any sequence of create, upsert, updateById, updateMany
\* and importAll calls, whatever tags the caller passes.
C13_StoredTagsCanonical ==
    \A k \in 1..Len(blob) : CanonicalTags(TagsOf(blob[k]))

\* the last call was a search of the store, or of the panel
Searched == Len(history) > 0 /\ Last.op \in {"search", "panelSearch"}

\* the index the last search read: the store's singleton, or the index the
\* panel built from the collection it had read
IndexSearched ==
    IF Last.op = "search" THEN searchIndex ELSE search_buildIndex(Last.pre)

\* C14: for any search call with a non-empty tags filter, with or without a
\* text query and with or without a category filter, every returned
\* signature is in the tag posting list of every selected tag.
C14_TagFilterIsConjunctive ==
    (Searched /\ TagsOf(Last.options) # <<>>) =>
        \A r \in Last.ret : \A i \in 1..Len(TagsOf(Last.options)) :
            r.signature \in PostingOf(IndexSearched.tag, toLowerCase(TagsOf(Last.options)[i]))

\* the usage count, the success count and the quality of a template
Triple(t) == <<t.usageCount, t.renderSuccessCount, t.quality>>

\* the last call was getBestOf over the three templates of the example
BestOfExample ==
    /\ Len(history) > 0
    /\ Last.op = "getBestOf"
    /\ Triple(Last.pre[1]) = <<10, 8, "Green">>
    /\ Triple(Last.pre[2]) = <<10, 2, "Red">>
    /\ Triple(Last.pre[3]) = <<1, 1, "Amber">>

\* C15: getBestOf over three templates with (usageCount,
\* renderSuccessCount, quality) = (10,8,Green), (10,2,Red), (1,1,Amber)
\* returns them ordered first, third, second: the first has the highest
\* score and the third scores strictly above the second.
C15_BestOfOrder ==
    BestOfExample =>
        /\ Len(Last.ret) = 3
        /\ Last.ret[1].template.id = Last.pre[1].id
        /\ Last.ret[2].template.id = Last.pre[3].id
        /\ Last.ret[3].template.id = Last.pre[2].id
        /\ Last.ret[1].num > Last.ret[2].num
        /\ Last.ret[2].num > Last.ret[3].num

\* the template a create, upsert or updateById call returned
Returned(call) == IF call.op = "upsert" THEN call.ret.template ELSE call.ret

\* the step is a create, upsert or updateById call whose own write, the last
\* thing these calls do to the storage, was refused
RefusedWriteStep ==
    /\ now' # now
    /\ Last'.op \in {"create", "upsert", "updateById"}
    /\ Last'.trace # <<>>
    /\ Last'.trace[Len(Last'.trace)] = "refused"

\* the call returned the template it built at the time of the call
ReturnedBuilt(call, at) ==
    /\ Returned(call) # null
    /\ Returned(call).updatedAt = at
    /\ call.op = "updateById" => Returned(call).id = call.id
    /\ call.op # "updateById" => Returned(call).signature = computeSignature(call.data)

\* C16: when the blob write fails during create, upsert or updateById, the
\* call still returns the created or updated template without raising, and
\* the persisted blob keeps the content it had before the call.
C16_RefusedWriteKeepsBlob ==
    [][RefusedWriteStep => ReturnedBuilt(Last', now) /\ blob' = blob]_vars

\* C16, amended: ... the call still returns the created or updated template
\* without raising, and the persisted blob keeps the content it had before
\* the refused write: the content before the call, or, when the call's read
\* of an empty collection wrote the first-run bootstrap before the storage
\* refused, that bootstrap.
C16_RefusedWriteKeepsBlobAsRead ==
    [][RefusedWriteStep =>
          /\ ReturnedBuilt(Last', now)
          /\ blob' = IF "write" \in Range(Last'.trace) THEN Last'.pre ELSE blob]_vars

\* C16, its case: a create on a collection that was not empty was refused:
\* the template was returned and is not in the blob
C16_Witness ==
    /\ Len(history) > 0
    /\ Last.op = "create"
    /\ Last.trace = <<"refused">>
    /\ Len(Last.pre) > 0
    /\ blob = Last.pre
    /\ Last.ret \notin Range(blob)

\* C17: every mutation whose blob write succeeds (create, upsert,
\* updateById, deleteById, deleteMany, updateMany, importAll that adds
\* records, seed, migration) emits at least one collection-changed
\* notification after the write and before the call returns.
C17_WriteThenNotification ==
    Len(history) > 0 =>
        \A i \in 1..Len(Last.trace) :
            Last.trace[i] = "write" =>
                \E j \in (i + 1)..Len(Last.trace) : Last.trace[j] = "emit"

\* C17, its case: an import that added records after the read of the empty
\* collection had written the bootstrap: two writes, each followed by its
\* notification
C17_Witness ==
    /\ Len(history) > 0
    /\ Last.op = "importAll"
    /\ Last.ret.importedCount > 0
    /\ Last.trace = <<"write", "emit", "write", "emit">>

\* the last call was a getAll that found the persisted collection empty or unreadable
Bootstrapped ==
    /\ Len(history) > 0
    /\ Last.op = "getAll"
    /\ Last.blobBefore \in {<<>>, Unreadable}

\* the legacy blob the last getAll found parses to an array
LegacyArray == Last.legacyBefore.present /\ "presets" \in DOMAIN Last.legacyBefore

\* the record is what convertOldPresetToTemplate makes of the preset at the time
ConvertedFrom(t, preset, at) ==
    \E pinned \in BOOLEAN : t = convertOldPresetToTemplate(preset, pinned, at, t.id)

\* the collection is the built-in presets plus the converted entries of the
\* legacy array, one record per signature, and the legacy blob is deleted
MigratedFrom(templates, presets, at) ==
    /\ legacy = NoLegacy
    /\ Cardinality(SignaturesOf(templates)) = Len(templates)
    /\ \A t \in Range(templates) :
          \E p \in Range(STYLE_PRESETS) \cup Range(presets) : ConvertedFrom(t, p, at)
    /\ \A p \in Range(STYLE_PRESETS) \cup Range(presets) :
          \E t \in Range(templates) : ConvertedFrom(t, p, at)

\* the collection is exactly the built-in presets, pinned and never used
SeededOnly(templates, at) ==
    /\ Len(templates) = Len(STYLE_PRESETS)
    /\ \A i \in 1..Len(templates) :
          /\ templates[i] = convertOldPresetToTemplate(STYLE_PRESETS[i], TRUE, at,
                                                       templates[i].id)
          /\ templates[i].pinned
          /\ templates[i].usageCount = 0
          /\ templates[i].renderSuccessCount = 0

\* the last getAll read a collection that was not empty: the same records
\* come back and the legacy blob is as it was
NothingBootstrapped ==
    /\ legacy = Last.legacyBefore
    /\ Len(Last.ret) = Len(Last.blobBefore)
    /\ \A i \in 1..Len(Last.ret) :
          /\ Last.ret[i].id = Last.blobBefore[i].id
          /\ Last.ret[i].signature = Last.blobBefore[i].signature

\* C18: getAll on an empty (or unreadable) persisted collection bootstraps:
\* if the legacy blob holds an array, it persists and returns the built-in
\* presets plus the converted legacy entries, deduplicated by signature, and
\* deletes the legacy blob; otherwise it persists and returns exactly the
\* built-in presets, every one with pinned = true and zero usage counters.
\* On a non-empty collection getAll never seeds or migrates from the legacy blob.
C18_GetAllBootstraps ==
    Len(history) > 0 /\ Last.op = "getAll" =>
        IF Bootstrapped
        THEN /\ blob = Last.ret
             /\ IF LegacyArray
                THEN MigratedFrom(Last.ret, Last.legacyBefore.presets, now - 1)
                ELSE SeededOnly(Last.ret, now - 1)
        ELSE NothingBootstrapped

\* C18, amended: ... if the legacy blob holds an array whose entries all
\* convert, it persists and returns the built-in presets plus the converted
\* legacy entries, deduplicated by signature, and deletes the legacy blob;
\* otherwise (no legacy blob, not an array, or an entry whose conversion
\* raises) it persists and returns exactly the built-in presets, every one
\* with pinned = true and zero usage counters, and leaves the legacy blob as
\* it is.  On a non-empty collection getAll never seeds or migrates.
C18_GetAllBootstrapsConvertible ==
    Len(history) > 0 /\ Last.op = "getAll" =>
        IF Bootstrapped
        THEN /\ blob = Last.ret
             /\ IF migrates(Last.legacyBefore)
                THEN MigratedFrom(Last.ret, Last.legacyBefore.presets, now - 1)
                ELSE SeededOnly(Last.ret, now - 1) /\ legacy = Last.legacyBefore
        ELSE NothingBootstrapped

\* C18, its case: getAll found no collection and a legacy array of two
\* entries, one of them with the content of the built-in preset: one record
\* per signature was persisted and the legacy blob is gone
C18_Witness ==
    /\ Bootstrapped
    /\ migrates(Last.legacyBefore)
    /\ Len(Last.legacyBefore.presets) = 2
    /\ Len(blob) = 2
    /\ legacy = NoLegacy

\* the last call was validateTemplate
Validated == Len(history) > 0 /\ Last.op = "validateTemplate"

\* C19: for a draft whose other fields satisfy every rule, validate returns a
\* non-Red grade with ok = true exactly when the trimmed name length is
\* within [3, 60]: lengths 3 and 60 are accepted, lengths 2 and 61 (and an
\* absent or blank name) give grade Red with ok = false; in all cases ok is
\* true iff the grade is not Red.
C19_NameLengthBoundary ==
    Validated =>
        /\ Last.ret.ok <=> Last.ret.quality # "Red"
        /\ Last.fields \in GoodFields =>
              /\ Last.ret.ok <=> Last.name.trimmed \in MinNameLen..MaxNameLen
              /\ ~Last.ret.ok => Last.ret.quality = "Red"

\* C19, its case: a padded name of sixty characters, longer than sixty with
\* its padding, was accepted
C19_Witness ==
    /\ Validated
    /\ Last.fields \in GoodFields
    /\ Last.name.trimmed = MaxNameLen
    /\ Len(Last.name.name) > MaxNameLen
    /\ Last.ret.ok
    /\ Last.ret.quality = "Green"

\* the tokens the last search made of a text: the store's tokenizer, or the panel's
TokensSearched(text) ==
    IF Last.op = "search" THEN tokenize(text) ELSE search_tokenize(text)

\* the last search had a text query of one token and no other filter
OneTokenQuery ==
    /\ Searched
    /\ DOMAIN Last.options = {"q"}
    /\ Len(TokensSearched(Last.options.q)) = 1

\* the templates the last search had indexed whose prompt-field text has the token
HavingToken ==
    { t \in Range(Last.pre) :
        /\ t.signature \in DOMAIN IndexSearched.meta
        /\ TokensSearched(Last.options.q)[1] \in Range(TokensSearched(indexText(t))) }

Reindexing ==
    \/ Last.op = "updateById" /\ Last.ret # null
    \/ Last.op = "upsert" /\ Last.ret.status = "updated"
    \/ Last.op = "updateMany"

IndexShows(t) ==
    /\ t.signature \in DOMAIN searchIndex.meta
    /\ searchIndex.meta[t.signature].tags = TagsOf(t)
    /\ searchIndex.meta[t.signature].category = categoryOf(t)
    /\ searchIndex.meta[t.signature].quality = t.quality

\* C21: after updateById, a merging upsert or updateMany on a live index, the
\* index meta filed under the signature of every record the call changed shows
\* that record's new tags, category and quality.
C21_ReindexedMetaShowsRecord ==
    (Len(history) > 0 /\ Reindexing /\ searchIndex # null)
        => \A k \in 1..Len(Last.post) : Touched(k) => IndexShows(Last.post[k])


\* ---------------------------------------------------------------------------
\* Bulk mutations write once
\* ---------------------------------------------------------------------------

\* what a bulk call did after its read of the collection
OwnTrace(call, read) == SubSeq(call.trace, Len(read) + 1, Len(call.trace))

WritesIn(trace) == Cardinality({i \in 1..Len(trace) : trace[i] = "write"})

\* every index patch of the trace precedes its first write
PatchedBeforeWrite(trace) ==
    \A i, j \in 1..Len(trace) : (trace[i] = "index" /\ trace[j] = "write") => i < j

\* the blob holds the collection the call read with every listed record
\* deleted or updated, the other records as they were, in the order read
WholeBulkChange(call, stored, at) ==
    IF call.op = "deleteMany"
    THEN stored = filterOutIds(call.pre, call.ids)
    ELSE /\ Len(stored) = Len(call.pre)
         /\ \A k \in 1..Len(stored) :
               IF call.pre[k].id \in call.ids
               THEN /\ stored[k].updatedAt = at
                    /\ \A f \in DOMAIN call.updates : stored[k][f] = call.updates[f]
               ELSE stored[k] = call.pre[k]

BulkStep == now' # now /\ Last'.op \in {"deleteMany", "updateMany"}

\* C22: deleteMany and updateMany write the blob exactly once for the
\* mutation, after every affected record was processed and its index entries
\* patched; the written collection has every listed record changed, never
\* only some of them.
C22_BulkWritesOnce ==
    [][BulkStep =>
          /\ WritesIn(OwnTrace(Last', getTemplates(St, now).st.trace)) = 1
          /\ PatchedBeforeWrite(OwnTrace(Last', getTemplates(St, now).st.trace))
          /\ WholeBulkChange(Last', blob', now)]_vars

\* C22, its case: an updateMany over two records on a live index: the index
\* was patched for each, then the blob was written once
C22_Witness ==
    /\ Len(history) > 0
    /\ Last.op = "updateMany"
    /\ Cardinality(Last.ids) = 2
    /\ Last.trace = <<"index", "index", "write", "emit">>
    /\ \A k \in 1..Len(Last.post) : Last.pre[k].id \in Last.ids => Touched(k)

----------------------------------------------------------------------------
(* updateManyTemplates step by step: the call is suspended at its read of   *)
(* the collection and at the hashing of each listed record, and searches    *)
(* and other calls run at these points                                      *)

\* the first position from i on whose record is listed, Len + 1 when none is
RECURSIVE nextListed(_, _, _)
nextListed(templates, i, idSet) ==
    IF i > Len(templates) \/ templates[i].id \in idSet THEN i
    ELSE nextListed(templates, i + 1, idSet)

without(calls, k) ==
    [j \in 1..(Len(calls) - 1) |-> IF j < k THEN calls[j] ELSE calls[j + 1]]

\* const templates = await getTemplates(); the loop runs to the first
\* await computeSignature(base)
BeginManyOn(idSet, updates, r) ==
    /\ Commit(r.st)
    /\ now' = now + 1
    /\ inflight' = Append(inflight,
                      [ op |-> "updateMany", ids |-> idSet, updates |-> updates,
                        read |-> r.templates, templates |-> r.templates,
                        i |-> nextListed(r.templates, 1, idSet), began |-> now ])
    /\ history' = history

BeginMany(idSet, updates) ==
    /\ now <= MaxClock
    /\ Len(inflight) < MaxInflight
    /\ BeginManyOn(idSet, updates, getTemplates(St, now))

\* the signature of record c.i arrives: the index is patched for it and the
\* working copy updated (st, templates); the loop goes on to the next listed
\* record and is suspended there, or saves the working copy and returns
ResumeManyWith(k, c, st, templates) ==
    IF nextListed(templates, c.i + 1, c.ids) > Len(templates)
    THEN /\ Commit(saveAllTemplates(st, templates))
         /\ inflight' = without(inflight, k)
         /\ history' = Logged([ op |-> "updateMany", ids |-> c.ids, updates |-> c.updates,
                                ret |-> null, pre |-> c.read, post |-> templates,
                                began |-> c.began, at |-> now ])
    ELSE /\ Commit(st)
         /\ inflight' = [inflight EXCEPT ![k] =
                            [c EXCEPT !.templates = templates,
                                      !.i = nextListed(templates, c.i + 1, c.ids)]]
         /\ history' = history

ResumeMany(k) ==
    /\ inflight[k].op = "updateMany"
    /\ now' = now
    /\ ResumeManyWith(k, inflight[k],
           patchIndex(St, <<inflight[k].templates[inflight[k].i]>>,
                      <<applyUpdates(inflight[k].templates[inflight[k].i],
                                     inflight[k].updates, now)>>),
           [inflight[k].templates EXCEPT ![inflight[k].i] =
               applyUpdates(inflight[k].templates[inflight[k].i], inflight[k].updates, now)])

NextSuspend ==
    \/ \E S \in IdPairs, u \in BulkPatches : BeginMany(S, u)
    \/ \E k \in 1..Len(inflight) : ResumeMany(k)
    \/ \E d \in Drafts : Begin("upsert", d)
    \/ \E k \in 1..Len(inflight) : inflight[k].op = "upsert" /\ Finish(k)
    \/ \E o \in Queries : Search(o)

SpecSuspend == Init /\ [][NextSuspend]_vars

\* the live index has the entry of t
Indexed(t) ==
    /\ IndexShows(t)
    /\ searchIndex.meta[t.signature].name = t.name

\* every entry of the live index is the entry of a persisted record
IndexedStatesPersisted ==
    \A sig \in DOMAIN searchIndex.meta :
        \E k \in 1..Len(blob) : blob[k].signature = sig /\ Indexed(blob[k])

\* C23: at every suspension point inside a store mutation the live index
\* holds no entry for a record state that is absent from the persisted
\* collection, also while an updateMany over several records is suspended.
C23_IndexPatchedWithWrite ==
    (inflight # <<>> /\ searchIndex # null) => IndexedStatesPersisted

----------------------------------------------------------------------------
(* The store without createTemplate: upserts, updates, deletions and        *)
(* imports on a collection whose signatures are pairwise distinct           *)

\* DraftA saved a second time under another name
DraftVan == [DraftA EXCEPT !.name = <<"V", "a", "n">>]

NextUnique ==
    \/ \E d \in Drafts \cup {DraftVan} : Upsert(d)
    \/ \E i \in 1..Len(blob), u \in Patches : UpdateById(blob[i].id, u)
    \/ \E i \in 1..Len(blob) : DeleteById(blob[i].id)
    \/ \E S \in IdPairs : DeleteMany(S)
    \/ \E S \in IdPairs, u \in BulkPatches : UpdateMany(S, u)
    \/ \E p \in Payloads : ImportAll(p)

SpecUnique == Init /\ [][NextUnique]_vars

SignaturesDistinct(templates) ==
    \A i, j \in 1..Len(templates) :
        i # j => templates[i].signature # templates[j].signature

\* C24: from a collection whose signatures are pairwise distinct, upsert,
\* updateById, updateMany, deleteById, deleteMany and importAll calls that
\* do not overlap leave the signatures of the stored records pairwise distinct.
C24_SignaturesStayDistinct == SignaturesDistinct(blob)

----------------------------------------------------------------------------
(* The lazy index: reads that seed, migrate or backfill, imports, deletions *)
(* and upserts, with searches as the index accesses                         *)

NextLazy ==
    \/ GetAll
    \/ \E o \in Queries : Search(o)
    \/ \E p \in Payloads : ImportAll(p)
    \/ \E d \in Drafts : Upsert(d)
    \/ \E t \in Range(getRawTemplates(St)) : DeleteById(t.id)
    \/ \E S \in SUBSET {t.id : t \in Range(getRawTemplates(St))} :
          Cardinality(S) = 2 /\ DeleteMany(S)

\* the stores of the bootstrap, and a collection of one record, which two
\* calls empty and read again
InitLazy ==
    /\ blob \in Blobs \cup {<<ReturningStore.blob[2]>>}
    /\ legacy \in Legacies
    /\ searchIndex = null
    /\ nextId = ReturningStore.nextId
    /\ now = 1
    /\ inflight = <<>>
    /\ history = <<>>
    /\ storage = Accepting

SpecLazy == InitLazy /\ [][NextLazy]_vars

\* the step is a call other than a search in which the read of the collection
\* seeded, migrated or backfilled, or an import that added records
InvalidatingStep ==
    /\ now' # now
    /\ Last'.op # "search"
    /\ \/ getTemplates(St, now).st.trace # <<>>
       \/ Last'.op = "importAll" /\ Last'.ret.importedCount > 0

\* the step is a search, which asks for the index
IndexAccessStep == now' # now /\ Last'.op = "search"

\* C25: after a seed, a legacy migration, a backfill in getAll or an import
\* that adds a record the index is null; the next index access installs the
\* index built from the collection persisted at that moment, and an access
\* that finds an index keeps it as it is.
C25_IndexDiscardedThenRebuilt ==
    [][/\ InvalidatingStep => searchIndex' = null
       /\ IndexAccessStep =>
              searchIndex' = IF searchIndex = null THEN buildIndex(blob') ELSE searchIndex]_vars

\* C25, its case: an import added records and the search after it installed
\* the index of the collection with the imported records
C25_Witness ==
    /\ Len(history) = 2
    /\ Prev.op = "importAll"
    /\ Prev.ret.importedCount > 0
    /\ Last.op = "search"
    /\ blob = Prev.post
    /\ searchIndex = buildIndex(blob)

\* ---------------------------------------------------------------------------
\* Posting lists are never empty
\* ---------------------------------------------------------------------------

NoEmptyPosting(map) == \A key \in DOMAIN map : map[key] # {}

\* C26: in every index state the store reaches (after the build and after
\* the entries its mutations add and remove) no key of the term, tag or
\* category map has an empty set of signatures.
C26_NoEmptyPostings ==
    searchIndex # null =>
        /\ NoEmptyPosting(searchIndex.term)
        /\ NoEmptyPosting(searchIndex.tag)
        /\ NoEmptyPosting(searchIndex.cat)

\* C26, its case: a deletion on a live index took the last signature out of
\* a tag's set and the tag is no longer a key
C26_Witness ==
    /\ Len(history) > 0
    /\ Last.op = "deleteById"
    /\ searchIndex # null
    /\ Len(Last.post) < Len(Last.pre)
    /\ \E k \in 1..Len(Last.pre) :
          /\ Last.pre[k] \notin Range(Last.post)
          /\ lowerTags(Last.pre[k]) # <<>>
          /\ lowerTags(Last.pre[k])[1] \notin DOMAIN searchIndex.tag
          /\ toLowerCase(categoryOf(Last.pre[k])) \notin DOMAIN searchIndex.cat

----------------------------------------------------------------------------
(* getBestOf with limits and usage thresholds, over collections in which a  *)
(* template that was never applied can have the most recorded successes     *)

\* (usageCount, renderSuccessCount): often used, used once, and never
\* applied with nine successes recorded (recordSuccess does not count a use)
RankCounts == {<<10, 8>>, <<1, 1>>, <<0, 9>>}

RankTemplates(id) ==
    {Used(d, c, id) : d \in {DraftA, DraftAmber, DraftRed}, c \in RankCounts}

InitRank ==
    /\ blob \in {<<a, b, c>> : a \in RankTemplates(1), b \in RankTemplates(2),
                                c \in RankTemplates(3)}
    /\ legacy = NoLegacy
    /\ searchIndex = null
    /\ nextId = 4
    /\ now = 1
    /\ inflight = <<>>
    /\ history = <<>>
    /\ storage = Accepting

Limits == {1, 2, DefaultLimit}

MinUses == {0, DefaultMinUses, 2, 11}

BestOfWithOn(limit, minUses, r) ==
    Done([op |-> "getBestOf", limit |-> limit, minUses |-> minUses], r.templates,
         [st |-> r.st, ret |-> getBestOf(r.templates, limit, minUses)])

\* getBestOf(limit, minUses)
BestOfWith(limit, minUses) ==
    history = <<>> /\ BestOfWithOn(limit, minUses, getTemplates(St, now))

NextRank == \E limit \in Limits, minUses \in MinUses : BestOfWith(limit, minUses)

SpecRank == InitRank /\ [][NextRank]_vars

\* Math.max(1, count) over every template of the collection
MaxInCollection(templates, count) ==
    maxOf([i \in 1..Len(templates) |-> NumOf(templates[i], count)], 1)

\* the result's score is the score of its template normalised by maxU and maxS
ScoredAgainst(r, maxU, maxS) ==
    r.num * (BestUnit * maxU * maxS) = bestScore(r.template, maxU, maxS) * r.den

BestOfCalled == Len(history) > 0 /\ Last.op = "getBestOf"

\* C27: getBestOf(limit, minUses) returns at most limit results, each a
\* stored template with usageCount >= minUses, by non-increasing score, the
\* score being 0.6 * successes / (most successes in the whole collection)
\* + 0.3 * uses / (most uses in the whole collection) + 0.1 * qW with
\* Green > Amber > Red; none when no template reaches minUses.
C27_BestOfRanksAgainstCollection ==
    BestOfCalled =>
        /\ Len(Last.ret) <= Last.limit
        /\ usedAtLeast(Last.pre, Last.minUses) = {} => Last.ret = <<>>
        /\ \A i \in 1..Len(Last.ret) :
              /\ Last.ret[i].template \in Range(Last.pre)
              /\ Last.ret[i].template.usageCount >= Last.minUses
              /\ i > 1 => Last.ret[i - 1].num * Last.ret[i].den
                              >= Last.ret[i].num * Last.ret[i - 1].den
              /\ ScoredAgainst(Last.ret[i],
                               MaxInCollection(Last.pre, "usageCount"),
                               MaxInCollection(Last.pre, "renderSuccessCount"))
        /\ GreenWeight > AmberWeight /\ AmberWeight > OtherWeight

\* ---------------------------------------------------------------------------
\* Ids of the stored records
\* ---------------------------------------------------------------------------

IdsDistinct(templates) ==
    \A i, j \in 1..Len(templates) : i # j => templates[i].id # templates[j].id

\* C28: after any sequence of create, upsert, updateById, updateMany,
\* deleteById, deleteMany and importAll calls no two records of the
\* persisted collection have the same id.
C28_IdsStayDistinct == IdsDistinct(blob)

----------------------------------------------------------------------------
(* The stores the application leaves behind, emptied and read again: a      *)
(* legacy array that converts is consumed by the first read of an empty     *)
(* collection, so it is stored only next to an empty or unreadable blob     *)

InitEmptied ==
    /\ InitLazy
    /\ Len(getRawTemplates(St)) > 0 => ~migrates(legacy)

SpecEmptied == InitEmptied /\ [][NextLazy]_vars

\* the signatures of the built-in presets
PresetSignatures ==
    {seedInitialTemplates(FreshStore, 0).templates[i].signature : i \in 1..Len(STYLE_PRESETS)}

\* every built-in preset is in the collection, pinned
PresetsPinnedIn(templates) ==
    \A sig \in PresetSignatures :
        \E i \in 1..Len(templates) : templates[i].signature = sig /\ templates[i].pinned

\* the step is a deleteById or deleteMany that lists every stored template
RemovesLastStep ==
    /\ now' # now
    /\ Last'.op \in {"deleteById", "deleteMany"}
    /\ Last'.pre # <<>>
    /\ \A i \in 1..Len(Last'.pre) :
          IF Last'.op = "deleteById" THEN Last'.pre[i].id = Last'.id
          ELSE Last'.pre[i].id \in Last'.ids

\* the step is a call other than a search that reads the emptied collection
ReadsEmptiedStep ==
    /\ now' # now
    /\ Len(history) > 0
    /\ Last.op \in {"deleteById", "deleteMany"}
    /\ blob = <<>>
    /\ Last'.op # "search"

\* C29: getAll never returns an empty collection; a deleteById or
\* deleteMany that removes the last stored template writes the blob empty,
\* and the next call that reads the collection re-seeds the built-in pinned
\* presets and discards the index.
C29_EmptiedCollectionReseeds ==
    [][/\ (now' # now /\ Last'.op = "getAll") => Last'.ret # <<>>
       /\ RemovesLastStep => blob' = <<>>
       /\ ReadsEmptiedStep =>
              /\ PresetsPinnedIn(Last'.pre)
              /\ searchIndex' = null]_vars

\* C29, its case: the only template was deleted on a live index, and the
\* getAll after it returned the pinned presets and left no index
C29_Witness ==
    /\ Len(history) = 2
    /\ Prev.op = "deleteById"
    /\ Prev.post = <<>>
    /\ Last.op = "getAll"
    /\ PresetsPinnedIn(Last.ret)
    /\ blob = Last.ret
    /\ searchIndex = null

\* ---------------------------------------------------------------------------
\* applyUsage
\* ---------------------------------------------------------------------------

\* what applyUsage leaves as it is in the record it counts a use for
KeptByUsage ==
    {"id", "createdAt", "tags", "favorite", "pinned", "renderSuccessCount"}
        \cup Range(PromptFields)

Keeps(old, new, keys) ==
    \A f \in keys \cap DOMAIN old : f \in DOMAIN new /\ new[f] = old[f]

\* applyUsage counted one use for the record at position found and for no other
CountedOnce(pre, post, found, at) ==
    /\ Len(post) = Len(pre)
    /\ \A k \in 1..Len(pre) : k # found => post[k] = pre[k]
    /\ post[found].usageCount = pre[found].usageCount + 1
    /\ post[found].lastUsed = at
    /\ Keeps(pre[found], post[found], KeptByUsage)

ApplyUsageStep == now' # now /\ Last'.op = "applyUsage"

\* the step is the second of two applyUsage calls in a row for one signature
\* that a record had
AppliedAgainStep ==
    /\ ApplyUsageStep
    /\ Len(history) > 0
    /\ Last.op = "applyUsage"
    /\ Last.signature = Last'.signature
    /\ findIndexBySignature(Last.pre, Last.signature) # 0

\* C30: applyUsage(signature) adds exactly 1 to usageCount and sets lastUsed
\* on the first stored record with that signature, leaves every other record
\* and that record's id, createdAt, content fields, tags, favorite, pinned
\* and renderSuccessCount unchanged, and writes nothing when no record has
\* the signature; after two such calls usageCount has grown by 2.
C30_ApplyUsageCountsOneUse ==
    [][/\ ApplyUsageStep =>
              IF findIndexBySignature(Last'.pre, Last'.signature) = 0
              THEN /\ blob' = Last'.pre
                   /\ OwnTrace(Last', getTemplates(St, now).st.trace) = <<>>
              ELSE CountedOnce(Last'.pre, blob',
                               findIndexBySignature(Last'.pre, Last'.signature), now)
       /\ AppliedAgainStep =>
              blob'[findIndexBySignature(Last.pre, Last.signature)].usageCount
                  = Last.pre[findIndexBySignature(Last.pre, Last.signature)].usageCount + 2]_vars

====
